---- MODULE Spec2Model ----
(***************************************************************************)
(* A model of the inochi particle simulation core: the particle store      *)
(* (src/particle.rs), the interaction matrix, the force-accumulation pass  *)
(* and the integrators (src/forces.rs).                                    *)
(*                                                                         *)
(* Numbers.  An f32 is modelled as a fixed-point integer counting          *)
(* hundredths (SCALE = 100): 1.0 is 100, 0.6 is 60, 0.99 is 99.  Sums and  *)
(* differences are exact; a product or a quotient is the exact value       *)
(* rounded toward zero (Mul, Div).  f32::INFINITY is the integer INFINITY, *)
(* larger than every other value of the model.                             *)
(*                                                                         *)
(* Ghost state.  The field id of a particle, and the variables last,       *)
(* next_id, steps, verlet_used, prev_owner, step_start, registered,        *)
(* visited and drawn are not program state: they record which particle is  *)
(* which and what the calls made so far did, so that the properties can    *)
(* speak about it.  No operation of the program reads them.                *)
(***************************************************************************)
EXTENDS Integers, Sequences, FiniteSets, TLC

\* ------------------------------------------------------------------ bounds
MaxSteps == 3
MaxInserts == 2
MaxCapacity == 2
\* laws registered (interaction laws and global laws together)
MaxForces == 2
\* species ids run from 0 to MaxSpecies
MaxSpecies == 2
\* particles in a slice handed to a spatial index
MaxSlice == 2
\* particles in an evaluation of the pair laws
MaxBodies == 3
\* the most indices inserted into a quadtree between two clears
MaxIndices == 4

\* ------------------------------------------------------------- fixed point
SCALE == 100
INFINITY == 2000000000
\* f32 NaN: a value no arithmetic of the model yields
NAN == INFINITY + 1
NaNVec == [x |-> NAN, y |-> NAN]

Abs(a) == IF a < 0 THEN -a ELSE a
Sgn(a) == IF a < 0 THEN -1 ELSE 1
TDiv(a, b) == Sgn(a) * Sgn(b) * (Abs(a) \div Abs(b))
Mul(a, b) == TDiv(a * b, SCALE)
Div(a, b) == TDiv(a * SCALE, b)
\* a / (b * b), the square kept at full resolution: a min_distance of 0.01
\* has the square 0.0001
DivSq(a, b) == TDiv(a * SCALE * SCALE, b * b)
Max2(a, b) == IF a >= b THEN a ELSE b
Min2(a, b) == IF a <= b THEN a ELSE b
clamp(a, lo, hi) == Max2(lo, Min2(a, hi))

RECURSIVE SqrtSearch(_, _, _)
SqrtSearch(n, lo, hi) ==
    IF lo >= hi THEN lo
    ELSE LET mid == (lo + hi + 1) \div 2
         IN  IF mid * mid <= n THEN SqrtSearch(n, mid, hi)
             ELSE SqrtSearch(n, lo, mid - 1)
\* floor of the square root
sqrt(n) == SqrtSearch(n, 0, Min2(n, 46340))
\* ceiling of the square root
sqrt_up(n) == LET r == sqrt(n) IN IF r * r = n THEN r ELSE r + 1

\* -------------------------------------------------------------------- Vec2
Vec2(x, y) == [x |-> x, y |-> y]
ZERO == Vec2(0, 0)
VAdd(a, b) == Vec2(a.x + b.x, a.y + b.y)
VSub(a, b) == Vec2(a.x - b.x, a.y - b.y)
VNeg(a) == Vec2(-a.x, -a.y)
VScale(a, s) == Vec2(Mul(a.x, s), Mul(a.y, s))
VDivS(a, s) == Vec2(Div(a.x, s), Div(a.y, s))
dot(a, b) == TDiv(a.x * b.x + a.y * b.y, SCALE)
\* the raw sum of squares: length_squared without its rounding
RawLenSq(a) == a.x * a.x + a.y * a.y
length_squared(a) == TDiv(RawLenSq(a), SCALE)
length(a) == sqrt(RawLenSq(a))
\* a / |a|, or zero for the zero vector
normalize_or_zero(a) ==
    LET len == length(a) IN IF len > 0 THEN VDivS(a, len) ELSE ZERO
\* max * (a / sqrt(length_squared)) when longer than max; the quotient is
\* rounded toward zero (the root in the divisor is rounded up)
clamp_length_max(a, max) ==
    IF RawLenSq(a) > max * max
    THEN LET len == sqrt_up(RawLenSq(a))
         IN  Vec2(TDiv(max * a.x, len), TDiv(max * a.y, len))
    ELSE a

\* ---------------------------------------------------------------- Particle
\* Particle::default with Particle::new(position); id is ghost
Particle_new(position) ==
    [position |-> position, velocity |-> ZERO, acceleration |-> ZERO,
     mass |-> 100, charge |-> 0, age |-> 0, lifespan |-> INFINITY,
     species_id |-> 0, energy |-> 100, size |-> 100, id |-> 0]

is_alive(p) == p.age < p.lifespan

Particle_update(p, dt) ==
    LET v == VAdd(p.velocity, VScale(p.acceleration, dt))
    IN  [p EXCEPT !.velocity = v,
                  !.position = VAdd(p.position, VScale(v, dt)),
                  !.age = p.age + dt,
                  !.acceleration = ZERO,
                  !.energy = Mul(Mul(length_squared(v), 50), p.mass)]

\* a mutant of apply_force: the force changes the velocity directly
apply_force_velocity(p, force) ==
    IF p.mass > 0
    THEN [p EXCEPT !.velocity = VAdd(p.velocity, VDivS(force, p.mass))]
    ELSE p

\* a mutant of apply_force: a particle without mass is moved like one of
\* mass 1
apply_force_massless(p, force) ==
    [p EXCEPT !.acceleration =
        VAdd(p.acceleration,
             VDivS(force, IF p.mass > 0 THEN p.mass ELSE SCALE))]

apply_force(p, force) ==
    IF p.mass > 0
    THEN [p EXCEPT !.acceleration = VAdd(p.acceleration, VDivS(force, p.mass))]
    ELSE p

apply_impulse(p, impulse) ==
    IF p.mass > 0
    THEN [p EXCEPT !.velocity = VAdd(p.velocity, VDivS(impulse, p.mass))]
    ELSE p

with_velocity(p, velocity) == [p EXCEPT !.velocity = velocity]
with_mass(p, mass) == [p EXCEPT !.mass = mass]
with_charge(p, charge) == [p EXCEPT !.charge = charge]
with_species(p, species_id) == [p EXCEPT !.species_id = species_id]
with_lifespan(p, lifespan) == [p EXCEPT !.lifespan = lifespan]
with_size(p, size) == [p EXCEPT !.size = size]

\* --------------------------------------------------------------- ForceType
Gravity(strength, min_distance) ==
    [type |-> "Gravity", strength |-> strength, min_distance |-> min_distance]
ElectroMagnetic(strength, min_distance) ==
    [type |-> "ElectroMagnetic", strength |-> strength,
     min_distance |-> min_distance]
LennardJones(epsilon, sigma) ==
    [type |-> "LennardJones", epsilon |-> epsilon, sigma |-> sigma]
Damping(coefficient) == [type |-> "Damping", coefficient |-> coefficient]
Brownian(intensity) == [type |-> "Brownian", intensity |-> intensity]
Attraction(strength, max_distance) ==
    [type |-> "Attraction", strength |-> strength,
     max_distance |-> max_distance]
Repulsion(strength, max_distance) ==
    [type |-> "Repulsion", strength |-> strength,
     max_distance |-> max_distance]
Vortex(center, strength, max_distance) ==
    [type |-> "Vortex", center |-> center, strength |-> strength,
     max_distance |-> max_distance]
Spring(rest_length, stiffness, spring_damping) ==
    [type |-> "Spring", rest_length |-> rest_length, stiffness |-> stiffness,
     damping |-> spring_damping]
Flocking(sr, ar, cr, ss, als, cs) ==
    [type |-> "Flocking", separation_radius |-> sr, alignment_radius |-> ar,
     cohesion_radius |-> cr, separation_strength |-> ss,
     alignment_strength |-> als, cohesion_strength |-> cs]

\* ------------------------------------------------------- InteractionMatrix
\* interactions is the HashMap: a function whose domain is the set of keys
InteractionMatrix_default ==
    [interactions |-> <<>>, default_forces |-> <<Damping(1), Brownian(10)>>]

\* the mutant of MatrixKey: the pair is not put in order
MatrixKey_unordered(species_a, species_b) == <<species_a, species_b>>

MatrixKey(species_a, species_b) ==
    IF species_a <= species_b THEN <<species_a, species_b>>
    ELSE <<species_b, species_a>>

add_interaction(im, species_a, species_b, force) ==
    LET key == MatrixKey(species_a, species_b)
        old == IF key \in DOMAIN im.interactions THEN im.interactions[key]
               ELSE <<>>
    IN  [im EXCEPT !.interactions =
            [k \in DOMAIN im.interactions \cup {key} |->
                IF k = key THEN Append(old, force) ELSE im.interactions[k]]]

\* a mutant of get_forces: no fallback to default_forces
get_forces_nodefault(im, species_a, species_b) ==
    LET key == MatrixKey(species_a, species_b)
    IN  IF key \in DOMAIN im.interactions THEN im.interactions[key]
        ELSE <<>>

get_forces(im, species_a, species_b) ==
    LET key == MatrixKey(species_a, species_b)
    IN  IF key \in DOMAIN im.interactions THEN im.interactions[key]
        ELSE im.default_forces

\* --------------------------------------------------------- ForceCalculator
\* a mutant of calculate_gravitational_force: the distance is not raised to
\* min_distance
calculate_gravitational_force_nomin(p, other, strength, min_distance) ==
    LET distance_vec == VSub(other.position, p.position)
        distance == length(distance_vec)
        direction == normalize_or_zero(distance_vec)
        force_magnitude == IF distance = 0 THEN 0
                           ELSE DivSq(Mul(Mul(strength, p.mass), other.mass),
                                      distance)
    IN  VScale(direction, force_magnitude)

calculate_gravitational_force(p, other, strength, min_distance) ==
    LET distance_vec == VSub(other.position, p.position)
        distance == Max2(length(distance_vec), min_distance)
        direction == normalize_or_zero(distance_vec)
        force_magnitude == DivSq(Mul(Mul(strength, p.mass), other.mass),
                                 distance)
    \* a floored distance of 0 needs coincident positions and a min_distance
    \* of 0: the magnitude is x / 0 and ZERO * (x / 0) is NaN
    IN  IF distance = 0 THEN NaNVec ELSE VScale(direction, force_magnitude)

calculate_electromagnetic_force(p, other, strength, min_distance) ==
    LET distance_vec == VSub(other.position, p.position)
        distance == Max2(length(distance_vec), min_distance)
        direction == normalize_or_zero(distance_vec)
        force_magnitude == DivSq(Mul(Mul(strength, p.charge), other.charge),
                                 distance)
    IN  IF distance = 0 THEN NaNVec ELSE VScale(direction, force_magnitude)

powi6(a) == LET a2 == Mul(a, a) IN Mul(Mul(a2, a2), a2)

calculate_lennard_jones_force(p, other, epsilon, sigma) ==
    LET distance_vec == VSub(other.position, p.position)
        distance == length(distance_vec)
    IN  IF distance = 0 THEN ZERO
        ELSE LET direction == VDivS(distance_vec, distance)
                 r_over_sigma == Div(distance, sigma)
                 r6 == powi6(r_over_sigma)
                 r12 == Mul(r6, r6)
                 force_magnitude ==
                     Div(Mul(Mul(2400, epsilon),
                             Div(200, r12) - Div(SCALE, r6)), distance)
             IN  VScale(direction, force_magnitude)

\* a mutant of calculate_attraction_force: no cut-off at max_distance
calculate_attraction_force_nocutoff(p, other, strength, max_distance) ==
    LET distance_vec == VSub(other.position, p.position)
        distance == length(distance_vec)
    IN  IF distance = 0 THEN ZERO
        ELSE LET direction == VDivS(distance_vec, distance)
                 force_magnitude ==
                     Mul(strength, SCALE - Div(distance, max_distance))
             IN  VScale(direction, force_magnitude)

calculate_attraction_force(p, other, strength, max_distance) ==
    LET distance_vec == VSub(other.position, p.position)
        distance == length(distance_vec)
    IN  IF distance > max_distance \/ distance = 0 THEN ZERO
        ELSE LET direction == VDivS(distance_vec, distance)
                 force_magnitude ==
                     Mul(strength, SCALE - Div(distance, max_distance))
             IN  VScale(direction, force_magnitude)

calculate_repulsion_force(p, other, strength, max_distance) ==
    LET distance_vec == VSub(other.position, p.position)
        distance == length(distance_vec)
    IN  IF distance > max_distance \/ distance = 0 THEN ZERO
        ELSE LET direction == VNeg(VDivS(distance_vec, distance))
                 force_magnitude ==
                     Mul(strength, SCALE - Div(distance, max_distance))
             IN  VScale(direction, force_magnitude)

calculate_vortex_force(p, center, strength, max_distance) ==
    LET distance_vec == VSub(p.position, center)
        distance == length(distance_vec)
    IN  IF distance > max_distance \/ distance = 0 THEN ZERO
        ELSE LET t == Vec2(-distance_vec.y, distance_vec.x)
                 tangent == VDivS(t, length(t))
                 force_magnitude ==
                     Mul(strength, SCALE - Div(distance, max_distance))
             IN  VScale(tangent, force_magnitude)

calculate_spring_force(p, other, rest_length, stiffness, spring_damping) ==
    LET distance_vec == VSub(other.position, p.position)
        distance == length(distance_vec)
    IN  IF distance = 0 THEN ZERO
        ELSE LET direction == VDivS(distance_vec, distance)
                 displacement == distance - rest_length
                 spring_force == Mul(stiffness, displacement)
                 relative_velocity == VSub(other.velocity, p.velocity)
                 damping_force ==
                     Mul(spring_damping, dot(relative_velocity, direction))
             IN  VScale(direction, spring_force + damping_force)

\* a mutant of calculate_force: Damping acts on the velocity relative to the
\* other particle
calculate_force_relative_damping(ft, p, other, has_other, r) ==
    CASE ft.type = "Gravity" ->
            IF has_other
            THEN calculate_gravitational_force(p, other, ft.strength,
                                               ft.min_distance)
            ELSE ZERO
      [] ft.type = "ElectroMagnetic" ->
            IF has_other
            THEN calculate_electromagnetic_force(p, other, ft.strength,
                                                 ft.min_distance)
            ELSE ZERO
      [] ft.type = "LennardJones" ->
            IF has_other
            THEN calculate_lennard_jones_force(p, other, ft.epsilon, ft.sigma)
            ELSE ZERO
      [] ft.type = "Damping" ->
            VScale(VSub(other.velocity, p.velocity), ft.coefficient)
      [] ft.type = "Brownian" ->
            Vec2(Mul(r[1] - 50, ft.intensity), Mul(r[2] - 50, ft.intensity))
      [] ft.type = "Attraction" ->
            IF has_other
            THEN calculate_attraction_force(p, other, ft.strength,
                                            ft.max_distance)
            ELSE ZERO
      [] ft.type = "Repulsion" ->
            IF has_other
            THEN calculate_repulsion_force(p, other, ft.strength,
                                           ft.max_distance)
            ELSE ZERO
      [] ft.type = "Vortex" ->
            calculate_vortex_force(p, ft.center, ft.strength, ft.max_distance)
      [] ft.type = "Spring" ->
            IF has_other
            THEN calculate_spring_force(p, other, ft.rest_length,
                                        ft.stiffness, ft.damping)
            ELSE ZERO
      [] ft.type = "Flocking" -> ZERO

\* calculate_force(force_type, particle, other); has_other is other.is_some()
\* and r = <<rx, ry>> are the two random draws a Brownian law makes
calculate_force(ft, p, other, has_other, r) ==
    CASE ft.type = "Gravity" ->
            IF has_other
            THEN calculate_gravitational_force(p, other, ft.strength,
                                               ft.min_distance)
            ELSE ZERO
      [] ft.type = "ElectroMagnetic" ->
            IF has_other
            THEN calculate_electromagnetic_force(p, other, ft.strength,
                                                 ft.min_distance)
            ELSE ZERO
      [] ft.type = "LennardJones" ->
            IF has_other
            THEN calculate_lennard_jones_force(p, other, ft.epsilon, ft.sigma)
            ELSE ZERO
      [] ft.type = "Damping" -> VScale(VNeg(p.velocity), ft.coefficient)
      [] ft.type = "Brownian" ->
            Vec2(Mul(r[1] - 50, ft.intensity), Mul(r[2] - 50, ft.intensity))
      [] ft.type = "Attraction" ->
            IF has_other
            THEN calculate_attraction_force(p, other, ft.strength,
                                            ft.max_distance)
            ELSE ZERO
      [] ft.type = "Repulsion" ->
            IF has_other
            THEN calculate_repulsion_force(p, other, ft.strength,
                                           ft.max_distance)
            ELSE ZERO
      [] ft.type = "Vortex" ->
            calculate_vortex_force(p, ft.center, ft.strength, ft.max_distance)
      [] ft.type = "Spring" ->
            IF has_other
            THEN calculate_spring_force(p, other, ft.rest_length,
                                        ft.stiffness, ft.damping)
            ELSE ZERO
      [] ft.type = "Flocking" -> ZERO

\* the random draws of one pass: rnd maps an evaluation site <<i, j, k>>
\* (particle i, other j or 0 for a global law, k-th law of the list) to the
\* two draws made there
NoDraw == <<50, 50>>
Draw(rnd, site) == IF site \in DOMAIN rnd THEN rnd[site] ELSE NoDraw

\* for force in forces { particle.apply_force(calculate_force(force, ..)) }
RECURSIVE apply_list(_, _, _, _, _, _, _, _)
apply_list(p, forces, other, has_other, i, j, rnd, k) ==
    IF k > Len(forces) THEN p
    ELSE apply_list(apply_force(p, calculate_force(forces[k], p, other,
                                                   has_other,
                                                   Draw(rnd, <<i, j, k>>))),
                    forces, other, has_other, i, j, rnd, k + 1)

apply_global_forces(p, i, gf, rnd) ==
    apply_list(p, gf, p, FALSE, i, 0, rnd, 1)

apply_pair_forces(p, other, i, j, im, rnd) ==
    apply_list(p, get_forces(im, p.species_id, other.species_id), other, TRUE,
               i, j, rnd, 1)

\* the flocking sums over all_particles: the neighbours of particle index
\* that are of its species, at a distance d with 0 < d < radius
FlockNeighbours(p, index, all_particles, radius) ==
    { n \in 1..Len(all_particles) :
        /\ n # index
        /\ all_particles[n].species_id = p.species_id
        /\ length(VSub(all_particles[n].position, p.position)) > 0
        /\ length(VSub(all_particles[n].position, p.position)) < radius }

RECURSIVE VSum(_, _, _)
\* the sum of term[n] over the indices n of S, in increasing order
VSum(term, S, n) ==
    IF n > Len(term) THEN ZERO
    ELSE VAdd(IF n \in S THEN term[n] ELSE ZERO, VSum(term, S, n + 1))

calculate_flocking_force(p, index, all_particles, ft) ==
    LET sep == FlockNeighbours(p, index, all_particles, ft.separation_radius)
        ali == FlockNeighbours(p, index, all_particles, ft.alignment_radius)
        coh == FlockNeighbours(p, index, all_particles, ft.cohesion_radius)
        sep_term == [n \in 1..Len(all_particles) |->
            LET dv == VSub(all_particles[n].position, p.position)
                d == length(dv)
            IN  IF d > 0 THEN VNeg(VDivS(VDivS(dv, d), d)) ELSE ZERO]
        vel_term == [n \in 1..Len(all_particles) |-> all_particles[n].velocity]
        pos_term == [n \in 1..Len(all_particles) |-> all_particles[n].position]
        separation ==
            IF sep = {} THEN ZERO
            ELSE VScale(normalize_or_zero(
                            VDivS(VSum(sep_term, sep, 1),
                                  Cardinality(sep) * SCALE)),
                        ft.separation_strength)
        alignment ==
            IF ali = {} THEN ZERO
            ELSE VScale(normalize_or_zero(
                            VSub(VDivS(VSum(vel_term, ali, 1),
                                       Cardinality(ali) * SCALE),
                                 p.velocity)),
                        ft.alignment_strength)
        cohesion ==
            IF coh = {} THEN ZERO
            ELSE VScale(normalize_or_zero(
                            VSub(VDivS(VSum(pos_term, coh, 1),
                                       Cardinality(coh) * SCALE),
                                 p.position)),
                        ft.cohesion_strength)
    IN  VAdd(VAdd(separation, alignment), cohesion)

RECURSIVE apply_flocking_forces(_, _, _, _, _)
apply_flocking_forces(p, index, all_particles, gf, k) ==
    IF k > Len(gf) THEN p
    ELSE apply_flocking_forces(
            IF gf[k].type = "Flocking"
            THEN apply_force(p, calculate_flocking_force(p, index,
                                                         all_particles, gf[k]))
            ELSE p,
            index, all_particles, gf, k + 1)

RECURSIVE pair_loop(_, _, _, _, _, _)
\* a mutant of pair_loop: the particle is also paired with itself
RECURSIVE pair_loop_self(_, _, _, _, _, _)
pair_loop_self(p, i, particles_copy, im, rnd, j) ==
    IF j > Len(particles_copy) THEN p
    ELSE pair_loop_self(apply_pair_forces(p, particles_copy[j], i, j, im, rnd),
                        i, particles_copy, im, rnd, j + 1)

\* for (j, other) in particles_copy { if i != j { apply_pair_forces } }
pair_loop(p, i, particles_copy, im, rnd, j) ==
    IF j > Len(particles_copy) THEN p
    ELSE pair_loop(IF i # j
                   THEN apply_pair_forces(p, particles_copy[j], i, j, im, rnd)
                   ELSE p,
                   i, particles_copy, im, rnd, j + 1)

\* a mutant of apply_forces_iter: the loop is fused with a position update
\* and reads the other particles from the live array, not from the snapshot
apply_forces_iter_inplace(ps, i, particles_copy, im, gf, rnd) ==
    LET q == apply_flocking_forces(
                 pair_loop(apply_global_forces(ps[i], i, gf, rnd), i, ps, im,
                           rnd, 1),
                 i, ps, gf, 1)
    IN  [ps EXCEPT ![i] = [q EXCEPT !.position =
                                        VAdd(q.position, q.acceleration)]]

\* the body of the loop of apply_forces for index i: it works on the live
\* particle ps[i] and reads every other particle from particles_copy
apply_forces_iter(ps, i, particles_copy, im, gf, rnd) ==
    [ps EXCEPT ![i] =
        apply_flocking_forces(
            pair_loop(apply_global_forces(ps[i], i, gf, rnd), i,
                      particles_copy, im, rnd, 1),
            i, particles_copy, gf, 1)]

RECURSIVE apply_forces_loop(_, _, _, _, _, _)
apply_forces_loop(ps, particles_copy, im, gf, rnd, i) ==
    IF i > Len(ps) THEN ps
    ELSE apply_forces_loop(
            apply_forces_iter(ps, i, particles_copy, im, gf, rnd),
            particles_copy, im, gf, rnd, i + 1)

\* ForceCalculator::apply_forces: the snapshot, then the loop in index order
apply_forces(ps, im, gf, rnd) == apply_forces_loop(ps, ps, im, gf, rnd, 1)

\* the sites of a pass over ps at which a Brownian law draws
BrownianSites(ps, im, gf) ==
    { <<i, 0, k>> : i \in 1..Len(ps),
                    k \in { k \in 1..Len(gf) : gf[k].type = "Brownian" } }
    \cup
    UNION { { <<c[1], c[2], k>> :
                k \in { k \in 1..Len(get_forces(im, ps[c[1]].species_id,
                                                ps[c[2]].species_id)) :
                          get_forces(im, ps[c[1]].species_id,
                                     ps[c[2]].species_id)[k].type
                              = "Brownian" } } :
            c \in { c \in (1..Len(ps)) \X (1..Len(ps)) : c[1] # c[2] } }

\* ----------------------------------------------------------- PhysicsEngine
PhysicsConfig(method, dt, max_velocity, enable_collisions) ==
    [integration_method |-> method, dt |-> dt, max_force |-> 100000,
     max_velocity |-> max_velocity, enable_collisions |-> enable_collisions,
     collision_restitution |-> 80]

\* a mutant of euler_one: the accumulator is not reset
euler_one_noreset(p, cfg) ==
    [p EXCEPT !.velocity = clamp_length_max(
                               VAdd(p.velocity, VScale(p.acceleration, cfg.dt)),
                               cfg.max_velocity),
              !.position = VAdd(p.position, VScale(p.velocity, cfg.dt)),
              !.age = p.age + cfg.dt]

\* a mutant of euler_one: the speed is not clamped
euler_one_noclamp(p, cfg) ==
    [p EXCEPT !.velocity = VAdd(p.velocity, VScale(p.acceleration, cfg.dt)),
              !.position = VAdd(p.position, VScale(p.velocity, cfg.dt)),
              !.age = p.age + cfg.dt,
              !.acceleration = ZERO]

\* the body of the loop of euler_integration
euler_one(p, cfg) ==
    LET old_velocity == p.velocity
        v == clamp_length_max(VAdd(p.velocity,
                                   VScale(p.acceleration, cfg.dt)),
                              cfg.max_velocity)
    IN  [p EXCEPT !.velocity = v,
                  !.position = VAdd(p.position, VScale(old_velocity, cfg.dt)),
                  !.age = p.age + cfg.dt,
                  !.acceleration = ZERO]

euler_integration(ps, cfg) == [i \in 1..Len(ps) |-> euler_one(ps[i], cfg)]

\* a mutant of verlet_cache: a reset takes the positions one step back along
\* the velocities
verlet_cache_backstep(ps, previous_positions) ==
    IF Len(previous_positions) # Len(ps)
    THEN [i \in 1..Len(ps) |->
            VSub(ps[i].position, VScale(ps[i].velocity, 50))]
    ELSE previous_positions

\* the cache a Verlet step works on: reset when its length differs
verlet_cache(ps, previous_positions) ==
    IF Len(previous_positions) # Len(ps)
    THEN [i \in 1..Len(ps) |-> ps[i].position]
    ELSE previous_positions

\* the body of the loop of verlet_integration
verlet_one(p, previous_position, cfg) ==
    LET new_position ==
            VAdd(VSub(VScale(p.position, 200), previous_position),
                 VScale(VScale(p.acceleration, cfg.dt), cfg.dt))
        v == clamp_length_max(VDivS(VSub(new_position, p.position), cfg.dt),
                              cfg.max_velocity)
    IN  [p EXCEPT !.velocity = v,
                  !.position = new_position,
                  !.age = p.age + cfg.dt,
                  !.acceleration = ZERO]

\* the new particles and the new previous_positions
verlet_integration(ps, previous_positions, cfg) ==
    LET cache == verlet_cache(ps, previous_positions)
    IN  [particles |-> [i \in 1..Len(ps) |-> verlet_one(ps[i], cache[i], cfg)],
         previous_positions |-> [i \in 1..Len(ps) |-> ps[i].position]]

\* the body of the loop of rk4_integration
rk4_one(p, cfg) ==
    LET dt == cfg.dt
        k1_v == VScale(p.acceleration, dt)
        k1_x == VScale(p.velocity, dt)
        k2_v == VScale(p.acceleration, dt)
        k2_x == VScale(VAdd(p.velocity, VScale(k1_v, 50)), dt)
        k3_v == VScale(p.acceleration, dt)
        k3_x == VScale(VAdd(p.velocity, VScale(k2_v, 50)), dt)
        k4_v == VScale(p.acceleration, dt)
        k4_x == VScale(VAdd(p.velocity, k3_v), dt)
        dv == VDivS(VAdd(VAdd(k1_v, VScale(k2_v, 200)),
                         VAdd(VScale(k3_v, 200), k4_v)), 600)
        dx == VDivS(VAdd(VAdd(k1_x, VScale(k2_x, 200)),
                         VAdd(VScale(k3_x, 200), k4_x)), 600)
    IN  [p EXCEPT !.velocity = clamp_length_max(VAdd(p.velocity, dv),
                                                cfg.max_velocity),
                  !.position = VAdd(p.position, dx),
                  !.age = p.age + dt,
                  !.acceleration = ZERO]

rk4_integration(ps, cfg) == [i \in 1..Len(ps) |-> rk4_one(ps[i], cfg)]

\* the body of the inner loop of handle_collisions, for one other particle
collide_one(p, other, cfg) ==
    LET distance == length(VSub(p.position, other.position))
        min_distance == Mul(p.size + other.size, 50)
    IN  IF distance < min_distance /\ distance > 0
        THEN LET overlap == min_distance - distance
                 direction == VDivS(VSub(p.position, other.position), distance)
                 moved == [p EXCEPT !.position =
                              VAdd(p.position,
                                   VScale(VScale(direction, overlap), 50))]
                 relative_velocity == VSub(p.velocity, other.velocity)
                 velocity_along_normal == dot(relative_velocity, direction)
                 impulse_magnitude ==
                     Mul(-(SCALE + cfg.collision_restitution),
                         velocity_along_normal)
             IN  IF velocity_along_normal > 0 THEN moved
                 ELSE apply_impulse(moved, VScale(direction, impulse_magnitude))
        ELSE p

RECURSIVE collide_loop(_, _, _, _, _)
\* for (j, other) in particles_copy { if i >= j { continue } .. }
collide_loop(p, i, particles_copy, cfg, j) ==
    IF j > Len(particles_copy) THEN p
    ELSE collide_loop(IF i >= j THEN p
                      ELSE collide_one(p, particles_copy[j], cfg),
                      i, particles_copy, cfg, j + 1)

handle_collisions(ps, cfg) ==
    [i \in 1..Len(ps) |-> collide_loop(ps[i], i, ps, cfg, 1)]

\* the integrator PhysicsEngine::update dispatches to: the new particles and
\* the new previous_positions
integrate(ps, previous_positions, cfg) ==
    CASE cfg.integration_method = "Euler" ->
            [particles |-> euler_integration(ps, cfg),
             previous_positions |-> previous_positions]
      [] cfg.integration_method = "Verlet" ->
            verlet_integration(ps, previous_positions, cfg)
      [] cfg.integration_method = "RungeKutta4" ->
            [particles |-> rk4_integration(ps, cfg),
             previous_positions |-> previous_positions]

\* PhysicsEngine::update: forces, the integrator, then the collisions
PhysicsEngine_update(ps, previous_positions, cfg, im, gf, rnd) ==
    LET r == integrate(apply_forces(ps, im, gf, rnd), previous_positions, cfg)
    IN  IF cfg.enable_collisions
        THEN [r EXCEPT !.particles = handle_collisions(r.particles, cfg)]
        ELSE r

\* ------------------------------------------------------------- SpatialGrid
\* Indices are those of the slice, from 0; particle_positions.get(index) is
\* the entry index + 1 of the sequence
SpatialGrid_new(cell_size, bounds) ==
    [cell_size |-> cell_size, bounds |-> bounds, grid |-> <<>>,
     particle_positions |-> <<>>]

\* ((position - bounds.0) / cell_size).floor()
position_to_cell(g, position) ==
    <<(position.x - g.bounds[1].x) \div g.cell_size,
      (position.y - g.bounds[1].y) \div g.cell_size>>

\* the loop of SpatialGrid::update from index n on, over the map built so far
RECURSIVE grid_fill(_, _, _, _)
grid_fill(g, cells, positions, n) ==
    IF n > Len(positions) THEN cells
    ELSE LET cell == position_to_cell(g, positions[n])
             old == IF cell \in DOMAIN cells THEN cells[cell] ELSE <<>>
         IN  grid_fill(g,
                       [c \in DOMAIN cells \cup {cell} |->
                           IF c = cell THEN Append(old, n - 1) ELSE cells[c]],
                       positions, n + 1)

\* SpatialGrid::update(particles), positions being the particles' positions
SpatialGrid_update(g, positions) ==
    [g EXCEPT !.grid = grid_fill(g, <<>>, positions, 1),
              !.particle_positions = positions]

\* a mutant of within_distance: the test of the bounding box of the circle
within_box(position, particle_pos, radius) ==
    /\ Abs(position.x - particle_pos.x) <= radius
    /\ Abs(position.y - particle_pos.y) <= radius

\* position.distance(particle_pos) <= radius, decided exactly
within_distance(position, particle_pos, radius) ==
    RawLenSq(VSub(position, particle_pos)) <= radius * radius

\* the indices of one cell that pass the distance test
grid_cell_hits(g, cell, position, radius) ==
    IF cell \in DOMAIN g.grid
    THEN LET hit(index) ==
                 /\ index + 1 <= Len(g.particle_positions)
                 /\ within_distance(position,
                                    g.particle_positions[index + 1], radius)
         IN  SelectSeq(g.grid[cell], hit)
    ELSE <<>>

\* for x in min_cell.0..=max_cell.0 { for y in min_cell.1..=max_cell.1 {..} }
RECURSIVE grid_scan(_, _, _, _, _, _, _)
grid_scan(g, position, radius, min_cell, max_cell, x, y) ==
    IF x > max_cell[1] THEN <<>>
    ELSE IF y > max_cell[2]
         THEN grid_scan(g, position, radius, min_cell, max_cell, x + 1,
                        min_cell[2])
         ELSE grid_cell_hits(g, <<x, y>>, position, radius)
              \o grid_scan(g, position, radius, min_cell, max_cell, x, y + 1)

\* a mutant of SpatialGrid_query_neighbors: only the cell of position is
\* visited
query_own_cell(g, position, radius) ==
    grid_cell_hits(g, position_to_cell(g, position), position, radius)

\* SpatialGrid::query_neighbors(position, radius)
SpatialGrid_query_neighbors(g, position, radius) ==
    LET min_cell == position_to_cell(g, VSub(position, Vec2(radius, radius)))
        max_cell == position_to_cell(g, VAdd(position, Vec2(radius, radius)))
    IN  grid_scan(g, position, radius, min_cell, max_cell, min_cell[1],
                  min_cell[2])

\* SpatialGrid::query_neighbors_in_range(particle_index, radius)
query_neighbors_in_range(g, particle_index, radius) ==
    IF particle_index + 1 <= Len(g.particle_positions)
    THEN LET other(i) == i # particle_index
         IN  SelectSeq(SpatialGrid_query_neighbors(
                           g, g.particle_positions[particle_index + 1],
                           radius),
                       other)
    ELSE <<>>

\* ---------------------------------------------------------------- QuadTree
\* A tree is a function from paths to nodes: the root is <<>>, the children
\* of the node at path are Append(path, 1) .. Append(path, 4); the field
\* children of a node says whether it has them
QuadTree_node(bounds, max_particles, max_depth, depth) ==
    [bounds |-> bounds, particles |-> <<>>, children |-> FALSE,
     max_particles |-> max_particles, max_depth |-> max_depth,
     depth |-> depth]

\* QuadTree::new, and QuadTree::clear of a tree built by it
QuadTree_new(bounds, max_particles, max_depth) ==
    [path \in {<<>>} |-> QuadTree_node(bounds, max_particles, max_depth, 0)]

contains_point(node, point) ==
    /\ point.x >= node.bounds[1].x /\ point.x <= node.bounds[2].x
    /\ point.y >= node.bounds[1].y /\ point.y <= node.bounds[2].y

intersects_range(node, range) ==
    ~(\/ node.bounds[2].x < range[1].x \/ node.bounds[1].x > range[2].x
      \/ node.bounds[2].y < range[1].y \/ node.bounds[1].y > range[2].y)

\* the bounds of the four children, in the order subdivide creates them
child_bounds(node, c) ==
    LET min == node.bounds[1]
        max == node.bounds[2]
        center == VScale(VAdd(min, max), 50)
    IN  CASE c = 1 -> <<min, center>>
          [] c = 2 -> <<Vec2(center.x, min.y), Vec2(max.x, center.y)>>
          [] c = 3 -> <<Vec2(min.x, center.y), Vec2(center.x, max.y)>>
          [] c = 4 -> <<center, max>>

\* QuadTree::subdivide of the node at path: the particles stay in the node
subdivide(tree, path) ==
    LET node == tree[path]
        kids == { Append(path, c) : c \in 1..4 }
    IN  [q \in DOMAIN tree \cup kids |->
            IF q \in kids
            THEN QuadTree_node(child_bounds(node, q[Len(q)]),
                               node.max_particles, node.max_depth,
                               node.depth + 1)
            ELSE IF q = path THEN [node EXCEPT !.children = TRUE]
            ELSE tree[q]]

push_index(tree, path, particle_index) ==
    [tree EXCEPT ![path].particles = Append(@, particle_index)]

\* a mutant of QuadTree_insert: a node at max_depth still subdivides
RECURSIVE QuadTree_insert_deeper(_, _, _, _, _)
QuadTree_insert_deeper(tree, path, particle_index, position, c) ==
    LET node == tree[path]
    IN  IF c = 0
        THEN IF ~contains_point(node, position)
             THEN [tree |-> tree, ok |-> FALSE]
             ELSE IF \/ Len(node.particles) < node.max_particles
                     \/ node.depth > node.max_depth
             THEN [tree |-> push_index(tree, path, particle_index),
                   ok |-> TRUE]
             ELSE QuadTree_insert_deeper(IF node.children THEN tree
                                         ELSE subdivide(tree, path),
                                         path, particle_index, position, 1)
        ELSE IF c > 4
        THEN [tree |-> push_index(tree, path, particle_index), ok |-> TRUE]
        ELSE LET r == QuadTree_insert_deeper(tree, Append(path, c),
                                             particle_index, position, 0)
             IN  IF r.ok THEN r
                 ELSE QuadTree_insert_deeper(tree, path, particle_index,
                                             position, c + 1)

\* QuadTree::insert on the node at path (c = 0), and the rest of its loop
\* over the children from child c on; the result is the tree and the bool
RECURSIVE QuadTree_insert(_, _, _, _, _)
QuadTree_insert(tree, path, particle_index, position, c) ==
    LET node == tree[path]
    IN  IF c = 0
        THEN IF ~contains_point(node, position)
             THEN [tree |-> tree, ok |-> FALSE]
             ELSE IF \/ Len(node.particles) < node.max_particles
                     \/ node.depth >= node.max_depth
             THEN [tree |-> push_index(tree, path, particle_index),
                   ok |-> TRUE]
             ELSE QuadTree_insert(IF node.children THEN tree
                                  ELSE subdivide(tree, path),
                                  path, particle_index, position, 1)
        ELSE IF c > 4
        THEN [tree |-> push_index(tree, path, particle_index), ok |-> TRUE]
        ELSE LET r == QuadTree_insert(tree, Append(path, c), particle_index,
                                      position, 0)
             IN  IF r.ok THEN r
                 ELSE QuadTree_insert(tree, path, particle_index, position,
                                      c + 1)

\* QuadTree::query_radius on the node at path (c = 0), and the rest of its
\* loop over the children from child c on
RECURSIVE query_radius(_, _, _, _, _, _)
query_radius(tree, path, center, radius, particle_positions, c) ==
    LET node == tree[path]
        range == <<VSub(center, Vec2(radius, radius)),
                   VAdd(center, Vec2(radius, radius))>>
        hit(index) ==
            /\ index + 1 <= Len(particle_positions)
            /\ RawLenSq(VSub(center, particle_positions[index + 1]))
                  <= radius * radius
    IN  IF c = 0
        THEN IF ~intersects_range(node, range) THEN <<>>
             ELSE SelectSeq(node.particles, hit)
                  \o (IF node.children
                      THEN query_radius(tree, path, center, radius,
                                        particle_positions, 1)
                      ELSE <<>>)
        ELSE IF c > 4 THEN <<>>
        ELSE query_radius(tree, Append(path, c), center, radius,
                          particle_positions, 0)
             \o query_radius(tree, path, center, radius, particle_positions,
                             c + 1)

\* QuadTree::get_max_depth of the node at path
RECURSIVE QuadTree_get_max_depth(_, _)
QuadTree_get_max_depth(tree, path) ==
    LET node == tree[path]
        of(c) == QuadTree_get_max_depth(tree, Append(path, c))
    IN  IF node.children
        THEN Max2(Max2(Max2(Max2(node.depth, of(1)), of(2)), of(3)), of(4))
        ELSE node.depth

\* ---------------------------------------------------------- QuadTreeManager
QuadTreeManager_new(bounds, max_particles_per_node, max_depth) ==
    [quadtree |-> QuadTree_new(bounds, max_particles_per_node, max_depth),
     particle_positions |-> <<>>]

\* the loop of QuadTreeManager::update from index n on; the bool insert
\* returns is dropped
RECURSIVE quadtree_fill(_, _, _)
quadtree_fill(tree, positions, n) ==
    IF n > Len(positions) THEN tree
    ELSE quadtree_fill(QuadTree_insert(tree, <<>>, n - 1, positions[n],
                                       0).tree,
                       positions, n + 1)

\* QuadTreeManager::update(particles)
QuadTreeManager_update(m, positions) ==
    LET root == m.quadtree[<<>>]
    IN  [quadtree |-> quadtree_fill(QuadTree_new(root.bounds,
                                                 root.max_particles,
                                                 root.max_depth),
                                    positions, 1),
         particle_positions |-> positions]

\* QuadTreeManager::query_neighbors(position, radius)
QuadTreeManager_query_neighbors(m, position, radius) ==
    query_radius(m.quadtree, <<>>, position, radius, m.particle_positions, 0)

\* QuadTreeManager::query_neighbors_for_particle(particle_index, radius)
query_neighbors_for_particle(m, particle_index, radius) ==
    IF particle_index + 1 <= Len(m.particle_positions)
    THEN LET other(i) == i # particle_index
         IN  SelectSeq(QuadTreeManager_query_neighbors(
                           m, m.particle_positions[particle_index + 1],
                           radius),
                       other)
    ELSE <<>>

\* ----------------------------------------------------------- ConfigManager
\* config.forces of SimulationConfig::default(): the global force list and
\* the per-pair lists (a HashMap: a function whose domain is the set of keys)
ForceConfig_default ==
    [global_forces |-> <<Damping(1), Brownian(10)>>,
     species_interactions |-> <<>>]

Presets ==
    {"ParticleLife", "Flocking", "Gravity", "Electromagnetic", "Brownian",
     "ReactionDiffusion"}

\* what ConfigManager::apply_preset does to config.forces; coefficients below
\* 0.01 are below the resolution of the fixed point
ConfigManager_apply_preset(cf, preset) ==
    CASE preset = "ParticleLife" ->
           [cf EXCEPT !.species_interactions =
               (<<0, 0>> :> <<Repulsion(2000, 3000)>>) @@
               (<<0, 1>> :> <<Attraction(1500, 8000)>>) @@
               (<<0, 2>> :> <<Repulsion(5000, 6000)>>) @@
               (<<1, 1>> :> <<Attraction(1000, 5000)>>) @@
               (<<1, 2>> :> <<Attraction(800, 7000)>>) @@
               (<<2, 2>> :> <<Repulsion(3000, 4000)>>)]
      [] preset = "Flocking" ->
           [cf EXCEPT !.global_forces =
               <<Flocking(2000, 4000, 6000, 5000, 2000, 1000), Damping(2)>>]
      [] preset = "Gravity" ->
           [cf EXCEPT !.global_forces = <<Gravity(50000, 500), Damping(0)>>]
      [] preset = "Electromagnetic" ->
           [cf EXCEPT !.global_forces =
               <<ElectroMagnetic(100000, 1000), Damping(1)>>]
      [] preset = "Brownian" ->
           [cf EXCEPT !.global_forces = <<Brownian(500), Damping(5)>>]
      [] preset = "ReactionDiffusion" ->
           [cf EXCEPT !.species_interactions =
               (<<0, 0>> :> <<Attraction(2500, 4000)>>) @@
               (<<0, 1>> :> <<Repulsion(4000, 8000)>>) @@
               (<<1, 1>> :> <<Repulsion(1500, 3000)>>),
                      !.global_forces = <<Brownian(200), Damping(3)>>]

\* ------------------------------------------------------------------- state
VARIABLES
    \* ParticleSystem
    particles, max_particles, spawn_rate, spawn_timer, bounds,
    wrap_boundaries, damping,
    \* PhysicsEngine: config, force_calculator.interaction_matrix,
    \* force_calculator.global_forces, previous_positions
    config, interaction_matrix, global_forces, previous_positions,
    \* where the caller is in a step: "idle"; "accumulated" after a force
    \* pass of its own that no update has consumed yet; "pass" while the
    \* loop of apply_forces runs
    phase,
    \* the locals of a running apply_forces: the snapshot, and the indices
    \* the loop has not visited yet; with them (ghost) the indices visited,
    \* in order, and the random draws made so far
    particles_copy, pending, visited, drawn,
    \* two spatial indices: a SpatialPartitioning::Grid and a
    \* SpatialPartitioning::QuadTree
    spatial_grid, spatial_quadtree,
    \* ConfigManager: config.forces (global_forces, species_interactions)
    config_forces,
    \* ghost
    last, next_id, steps, verlet_used, prev_owner, step_start, registered

sysConf == <<max_particles, spawn_rate, bounds, wrap_boundaries, damping>>
storeVars == <<particles, spawn_timer, sysConf>>
engineConf == <<config, interaction_matrix, global_forces>>
engineVars == <<engineConf, previous_positions>>
passVars == <<particles_copy, pending, visited, drawn>>
verletGhost == <<prev_owner, step_start>>
ghostVars == <<last, next_id, steps, verlet_used, verletGhost, registered>>
spatialVars == <<spatial_grid, spatial_quadtree>>
vars == <<storeVars, engineVars, phase, passVars, spatialVars, config_forces,
         ghostVars>>

\* Option<(Vec2, Vec2)>
NoBounds == [some |-> FALSE, min |-> ZERO, max |-> ZERO]
SomeBounds(min, max) == [some |-> TRUE, min |-> min, max |-> max]

\* what the last call was, on which store contents, with which argument (the
\* particle of an insertion, the dt of ParticleSystem::update), and what it
\* returned ("unit" is Rust's (): none of the calls returns a value)
Last(op, before, arg, ret) ==
    [op |-> op, before |-> before, arg |-> arg, ret |-> ret]

\* ------------------------------------------------------------------ inputs
\* pairs of samples of rand::random::<f32>(), which lies in [0, 1), for the
\* places where the code draws twice
RandDraws == { <<0, 99>>, <<99, 0>> }
\* the one pair the step pipeline is explored with
PipelineDraws == { <<0, 99>> }
Methods == {"Euler", "Verlet", "RungeKutta4"}
\* the particles a caller builds: one at rest at the origin that lives for
\* ever; one of another species, heavy, 1.5 above it and falling, that lives
\* for 1.0
ParticleInputs ==
    { Particle_new(ZERO),
      with_species(with_lifespan(with_mass(
          with_velocity(Particle_new(Vec2(0, 150)), Vec2(0, -200)),
          200), 100), 1) }
PositionInputs == { Vec2(300, 400) }
\* frame times passed to ParticleSystem::update: 0.05 s and 0.6 s
DtInputs == {5, 60}
BoundsInputs == { <<Vec2(-1000, -1000), Vec2(1000, 1000)>> }
\* positions of the particles of a slice: two inside the bounds of the
\* index, one outside them
SpatialPositions == { Vec2(500, 500), Vec2(1500, 1500), Vec2(6000, 0) }
Slices == UNION { [1..n -> SpatialPositions] : n \in 0..MaxSlice }
\* query points and radii: 0, 6, 20 and 22
QueryPoints == { Vec2(0, 0), Vec2(500, 500), Vec2(5500, 0) }
QueryRadii == { 0, 600, 2000, 2200 }
\* particles for the boundary conditions, with bounds of +-10: one 50 to the
\* right of the origin and moving right, further out than the rectangle is
\* wide; one inside near the lower right corner and leaving through it; one
\* at rest far out on the lower left
BoundaryParticles ==
    { with_velocity(Particle_new(Vec2(5000, 0)), Vec2(300, 0)),
      with_velocity(Particle_new(Vec2(900, -900)), Vec2(400, -400)),
      Particle_new(Vec2(-1500, -3200)) }
\* the initial populations a preset generates, cut down to the capacity of
\* the model
PresetPopulations == UNION { [1..n -> ParticleInputs] : n \in 0..MaxCapacity }
\* bodies for the pair laws: masses 1 and 2 at three corners of a 3 x 4
\* rectangle (distances 3, 4 and 5) and at (1, 0), 1 from the origin
ForcePositions ==
    { Vec2(0, 0), Vec2(100, 0), Vec2(300, 0), Vec2(300, 400) }
ForceBodies ==
    { with_mass(Particle_new(position), mass) :
        position \in ForcePositions, mass \in {100, 200} }
\* Gravity{1, 0.01} and Gravity{100, 3.5}; Attraction and Repulsion of
\* strength 10 that reach 4 far
PairLaws ==
    { Gravity(100, 1), Gravity(10000, 350), Attraction(1000, 400),
      Repulsion(1000, 400) }
\* bodies for all laws: charge 1 and mass 1, at the origin or at (3, 4), at
\* rest or moving
LawBodies ==
    { with_charge(with_velocity(Particle_new(position), velocity), 100) :
        position \in { Vec2(0, 0), Vec2(300, 400) },
        velocity \in { ZERO, Vec2(200, -100) } }
\* one law of each kind that takes another particle, Gravity and
\* ElectroMagnetic also without a distance floor; Damping and a Vortex around
\* the origin
EachLaw ==
    { Gravity(100, 10), Gravity(100, 0), ElectroMagnetic(100, 10),
      ElectroMagnetic(100, 0), LennardJones(100, 500), Attraction(1000, 1000), Repulsion(1000, 1000),
      Spring(100, 50, 10), Damping(50), Vortex(ZERO, 100, 1000) }
SingleLaws == { Damping(50), Vortex(ZERO, 100, 1000), Gravity(100, 10) }
FlockingLaws == { Flocking(1000, 1000, 1000, 100, 100, 100) }
\* laws a caller registers for a pair of species, and global laws
LawInputs == { Gravity(100, 10), Spring(100, 50, 10) }
GlobalInputs == { Vortex(Vec2(100, 0), 100, 1000) }
\* the pair of species the pass is explored with: the two species of ParticleInputs,
\* in the reverse order (the other pairs keep default_forces)
PassPairs == { <<1, 0>> }

\* ----------------------------------------------------------- ParticleSystem
\* a mutant of add_particle: an off-by-one capacity check
add_particle_offbyone(ps, cap, p) ==
    IF Len(ps) <= cap THEN Append(ps, p) ELSE ps

\* a mutant of add_particle: a full store drops its oldest particle
add_particle_evict(ps, cap, p) ==
    IF Len(ps) < cap THEN Append(ps, p)
    ELSE IF Len(ps) = 0 THEN ps ELSE Append(Tail(ps), p)

add_particle(ps, cap, p) ==
    IF Len(ps) < cap THEN Append(ps, p) ELSE ps

spawn_particle_at(ps, cap, position, id) ==
    IF Len(ps) < cap
    THEN add_particle(ps, cap, [Particle_new(position) EXCEPT !.id = id])
    ELSE ps

\* a mutant of apply_boundary_conditions: wrapping shifts the position by the
\* width of the rectangle instead of moving it to the opposite edge
apply_boundary_conditions_shift(p, min, max, wrap) ==
    IF wrap
    THEN LET x == IF p.position.x < min.x
                  THEN p.position.x + (max.x - min.x)
                  ELSE IF p.position.x > max.x
                  THEN p.position.x - (max.x - min.x)
                  ELSE p.position.x
             y == IF p.position.y < min.y
                  THEN p.position.y + (max.y - min.y)
                  ELSE IF p.position.y > max.y
                  THEN p.position.y - (max.y - min.y)
                  ELSE p.position.y
         IN  [p EXCEPT !.position = Vec2(x, y)]
    ELSE LET outx == p.position.x < min.x \/ p.position.x > max.x
             outy == p.position.y < min.y \/ p.position.y > max.y
             vx == IF outx THEN Mul(-p.velocity.x, 80) ELSE p.velocity.x
             vy == IF outy THEN Mul(-p.velocity.y, 80) ELSE p.velocity.y
             x == IF outx THEN clamp(p.position.x, min.x, max.x)
                  ELSE p.position.x
             y == IF outy THEN clamp(p.position.y, min.y, max.y)
                  ELSE p.position.y
         IN  [p EXCEPT !.velocity = Vec2(vx, vy), !.position = Vec2(x, y)]

apply_boundary_conditions(p, min, max, wrap) ==
    IF wrap
    THEN LET x == IF p.position.x < min.x THEN max.x
                  ELSE IF p.position.x > max.x THEN min.x
                  ELSE p.position.x
             y == IF p.position.y < min.y THEN max.y
                  ELSE IF p.position.y > max.y THEN min.y
                  ELSE p.position.y
         IN  [p EXCEPT !.position = Vec2(x, y)]
    ELSE LET outx == p.position.x < min.x \/ p.position.x > max.x
             outy == p.position.y < min.y \/ p.position.y > max.y
             vx == IF outx THEN Mul(-p.velocity.x, 80) ELSE p.velocity.x
             vy == IF outy THEN Mul(-p.velocity.y, 80) ELSE p.velocity.y
             x == IF outx THEN clamp(p.position.x, min.x, max.x)
                  ELSE p.position.x
             y == IF outy THEN clamp(p.position.y, min.y, max.y)
                  ELSE p.position.y
         IN  [p EXCEPT !.velocity = Vec2(vx, vy), !.position = Vec2(x, y)]

\* 1.0 / spawn_rate; a rate of zero gives +infinity
SpawnInterval(rate) == IF rate = 0 THEN INFINITY ELSE Div(SCALE, rate)

\* a mutant of retain_alive: the predicate inverted
retain_dead(ps) == LET dead(p) == ~is_alive(p) IN SelectSeq(ps, dead)

\* a mutant of retain_alive: one call removes the first dead particle only
retain_alive_first(ps) ==
    LET dead == { i \in 1..Len(ps) : ~is_alive(ps[i]) }
    IN  IF dead = {} THEN ps
        ELSE LET k == CHOOSE i \in dead : \A j \in dead : i <= j
             IN  SubSeq(ps, 1, k - 1) \o SubSeq(ps, k + 1, Len(ps))

\* a mutant of retain_alive: the survivors come out in the reverse order
retain_alive_reversed(ps) ==
    LET r == SelectSeq(ps, is_alive)
    IN  [i \in 1..Len(r) |-> r[Len(r) + 1 - i]]

\* self.particles.retain(|p| p.is_alive())
retain_alive(ps) == SelectSeq(ps, is_alive)

\* the body of the loop of ParticleSystem::update for one particle
update_one(p, dt, bnd, wrap, damp) ==
    LET q == Particle_update([p EXCEPT !.velocity = VScale(p.velocity, damp)],
                             dt)
    IN  IF bnd.some THEN apply_boundary_conditions(q, bnd.min, bnd.max, wrap)
        ELSE q

\* a mutant of ParticleSystem_update: the auto-spawn does not ask for bounds
ParticleSystem_update_unbounded(ps, cap, rate, timer, bnd, wrap, damp, dt, rx, ry, id) ==
    LET timer1 == timer + dt
        due == timer1 >= SpawnInterval(rate)
        spawn_pos == Vec2(Mul(rx, bnd.max.x - bnd.min.x) + bnd.min.x,
                          Mul(ry, bnd.max.y - bnd.min.y) + bnd.min.y)
        ps1 == IF due THEN spawn_particle_at(ps, cap, spawn_pos, id) ELSE ps
        ps2 == [i \in 1..Len(ps1) |-> update_one(ps1[i], dt, bnd, wrap, damp)]
    IN  [particles |-> retain_alive(ps2),
         spawn_timer |-> IF due THEN 0 ELSE timer1,
         spawned |-> Len(ps1) > Len(ps)]

\* ParticleSystem::update(dt); rx and ry are the two random draws of the
\* auto-spawn. The result is the new particles and the new spawn_timer.
ParticleSystem_update(ps, cap, rate, timer, bnd, wrap, damp, dt, rx, ry, id) ==
    LET timer1 == timer + dt
        due == timer1 >= SpawnInterval(rate) /\ bnd.some
        spawn_pos == Vec2(Mul(rx, bnd.max.x - bnd.min.x) + bnd.min.x,
                          Mul(ry, bnd.max.y - bnd.min.y) + bnd.min.y)
        ps1 == IF due THEN spawn_particle_at(ps, cap, spawn_pos, id) ELSE ps
        ps2 == [i \in 1..Len(ps1) |-> update_one(ps1[i], dt, bnd, wrap, damp)]
    IN  [particles |-> retain_alive(ps2),
         spawn_timer |-> IF due THEN 0 ELSE timer1,
         spawned |-> Len(ps1) > Len(ps)]

\* -------------------------------------------------------------------- Init
NotUsed == [ran |-> FALSE, reset |-> FALSE, cache |-> <<>>, owner |-> <<>>,
            start |-> <<>>]
NoArg == Particle_new(ZERO)
Ids(ps) == [i \in 1..Len(ps) |-> ps[i].id]
Starts(ps) == [i \in 1..Len(ps) |->
                 [id |-> ps[i].id, position |-> ps[i].position]]

\* ParticleSystem::new(max_particles); bnd is NoBounds, or the bounds that
\* create_particle_system_from_preset sets right after new
StoreNew(cap, bnd) ==
    /\ particles = <<>>
    /\ max_particles = cap
    /\ spawn_rate = 1000
    /\ spawn_timer = 0
    /\ bounds = bnd
    /\ wrap_boundaries = FALSE
    /\ damping = 99

\* PhysicsEngine::new(cfg)
EngineNew(cfg) ==
    /\ config = cfg
    /\ interaction_matrix = InteractionMatrix_default
    /\ global_forces = <<>>
    /\ previous_positions = <<>>
    /\ registered = <<>>

\* PhysicsEngine::new(cfg) followed by the caller's setup: the calls of
\* add_interaction listed in reg, then the calls of add_global_force for gf
RECURSIVE Registered(_, _)
Registered(reg, n) ==
    IF n = 0 THEN InteractionMatrix_default
    ELSE add_interaction(Registered(reg, n - 1), reg[n].species_a,
                         reg[n].species_b, reg[n].force)

EngineSetUp(cfg, reg, gf) ==
    /\ config = cfg
    /\ interaction_matrix = Registered(reg, Len(reg))
    /\ global_forces = gf
    /\ previous_positions = <<>>
    /\ registered = reg

\* SpatialPartitioning::new_grid(10.0, bounds) and
\* SpatialPartitioning::new_quadtree(bounds, 1, 2)
SpatialNew(bnd) ==
    /\ spatial_grid = SpatialGrid_new(1000, bnd)
    /\ spatial_quadtree = QuadTreeManager_new(bnd, 1, 2)

GhostInit ==
    /\ config_forces = ForceConfig_default
    /\ SpatialNew(<<Vec2(-5000, -5000), Vec2(5000, 5000)>>)
    /\ phase = "idle"
    /\ particles_copy = <<>>
    /\ pending = {}
    /\ visited = <<>>
    /\ drawn = <<>>
    /\ last = Last("new", <<>>, NoArg, "unit")
    /\ next_id = 1
    /\ steps = 0
    /\ verlet_used = NotUsed
    /\ prev_owner = <<>>
    /\ step_start = <<>>

\* ----------------------------------------------------------------- actions
AddParticle(p) ==
    /\ phase # "pass"
    /\ next_id <= MaxInserts
    /\ particles' = add_particle(particles, max_particles,
                                 [p EXCEPT !.id = next_id])
    /\ last' = Last("add_particle", particles, [p EXCEPT !.id = next_id],
                    "unit")
    /\ next_id' = next_id + 1
    /\ verlet_used' = NotUsed
    /\ UNCHANGED <<spawn_timer, sysConf, engineVars, phase, passVars, steps,
                   verletGhost, registered,
                   spatialVars, config_forces>>

SpawnParticleAt(position) ==
    /\ phase # "pass"
    /\ next_id <= MaxInserts
    /\ particles' = spawn_particle_at(particles, max_particles, position,
                                      next_id)
    /\ last' = Last("spawn_particle_at", particles,
                    [Particle_new(position) EXCEPT !.id = next_id], "unit")
    /\ next_id' = next_id + 1
    /\ verlet_used' = NotUsed
    /\ UNCHANGED <<spawn_timer, sysConf, engineVars, phase, passVars, steps,
                   verletGhost, registered,
                   spatialVars, config_forces>>

\* ParticleSystem::update(dt), from either phase of the caller's step
SystemUpdate(dt, r) ==
    /\ steps < MaxSteps
    /\ phase \in {"idle", "accumulated"}
    /\ LET u == ParticleSystem_update(particles, max_particles, spawn_rate,
                                      spawn_timer, bounds, wrap_boundaries,
                                      damping, dt, r[1], r[2], next_id)
       IN  /\ particles' = u.particles
           /\ spawn_timer' = u.spawn_timer
           /\ next_id' = IF u.spawned THEN next_id + 1 ELSE next_id
    /\ phase' = "idle"
    /\ last' = Last("ParticleSystem_update", particles, dt, "unit")
    /\ steps' = steps + 1
    /\ verlet_used' = NotUsed
    /\ UNCHANGED <<sysConf, engineVars, passVars, verletGhost, registered,
                   spatialVars, config_forces>>

\* a mutant of Clear: only the last particle is removed
Clear_pop ==
    /\ phase # "pass"
    /\ particles' = SubSeq(particles, 1, Len(particles) - 1)
    /\ last' = Last("clear", particles, NoArg, "unit")
    /\ verlet_used' = NotUsed
    /\ UNCHANGED <<spawn_timer, sysConf, engineVars, phase, passVars, next_id,
                   steps, verletGhost, registered,
                   spatialVars, config_forces>>

Clear ==
    /\ phase # "pass"
    /\ particles' = <<>>
    /\ last' = Last("clear", particles, NoArg, "unit")
    /\ verlet_used' = NotUsed
    /\ UNCHANGED <<spawn_timer, sysConf, engineVars, phase, passVars, next_id,
                   steps, verletGhost, registered,
                   spatialVars, config_forces>>

SetBounds(min, max) ==
    /\ phase # "pass"
    /\ bounds # SomeBounds(min, max)
    /\ bounds' = SomeBounds(min, max)
    /\ last' = Last("set_bounds", particles, NoArg, "unit")
    /\ verlet_used' = NotUsed
    /\ UNCHANGED <<particles, spawn_timer, max_particles, spawn_rate,
                   wrap_boundaries, damping, engineVars, phase, passVars,
                   next_id, steps, verletGhost, registered,
                   spatialVars, config_forces>>

\* the caller assigns the public field wrap_boundaries
SetWrapBoundaries(w) ==
    /\ phase # "pass"
    /\ wrap_boundaries # w
    /\ wrap_boundaries' = w
    /\ last' = Last("set_wrap_boundaries", particles, NoArg, "unit")
    /\ verlet_used' = NotUsed
    /\ UNCHANGED <<particles, spawn_timer, max_particles, spawn_rate,
                   bounds, damping, engineVars, phase, passVars,
                   next_id, steps, verletGhost, registered,
                   spatialVars, config_forces>>

\* PresetManager::create_particle_system_from_preset: a new store with the
\* configured spawn rate, damping = config.forces.damping_coefficient (0.01)
\* and the spawn bounds, holding the generated population
create_particle_system_from_preset(population) ==
    [particles |-> [i \in 1..Len(population) |->
                       [population[i] EXCEPT !.id = i]],
     max_particles |-> MaxCapacity,
     spawn_rate |-> 1000,
     damping |-> 1,
     bounds |-> SomeBounds(Vec2(-40000, -30000), Vec2(40000, 30000))]

\* the part apply_preset and apply_current_config share: the engine is
\* replaced by PhysicsEngine::new(config.physics), the spatial index by a
\* new quadtree
EngineRebuilt ==
    /\ interaction_matrix' = InteractionMatrix_default
    /\ global_forces' = <<>>
    /\ previous_positions' = <<>>
    /\ registered' = <<>>
    /\ prev_owner' = <<>>
    /\ verlet_used' = NotUsed
    /\ spatial_quadtree' =
          QuadTreeManager_new(<<Vec2(-50000, -50000), Vec2(50000, 50000)>>,
                              10, 8)
    /\ UNCHANGED <<config, spatial_grid>>

\* App::apply_preset(preset)
ApplyPreset(preset, population) ==
    /\ phase # "pass"
    /\ config_forces' = ConfigManager_apply_preset(config_forces, preset)
    /\ LET system == create_particle_system_from_preset(population)
       IN  /\ particles' = system.particles
           /\ max_particles' = system.max_particles
           /\ spawn_rate' = system.spawn_rate
           /\ damping' = system.damping
           /\ bounds' = system.bounds
           /\ next_id' = Len(system.particles) + 1
    /\ spawn_timer' = 0
    /\ wrap_boundaries' = FALSE
    /\ EngineRebuilt
    /\ phase' = "idle"
    /\ last' = Last("apply_preset", particles, NoArg, "unit")
    /\ UNCHANGED <<passVars, steps, step_start>>

\* App::apply_current_config
ApplyCurrentConfig ==
    /\ phase # "pass"
    /\ EngineRebuilt
    /\ phase' = "idle"
    /\ last' = Last("apply_current_config", particles, NoArg, "unit")
    /\ UNCHANGED <<storeVars, passVars, next_id, steps, step_start,
                   config_forces>>

\* the "Reset to Defaults" button: ConfigManager::reset_to_defaults, then
\* apply_current_config
ResetToDefaults ==
    /\ phase # "pass"
    /\ config_forces' = ForceConfig_default
    /\ EngineRebuilt
    /\ phase' = "idle"
    /\ last' = Last("reset_to_defaults", particles, NoArg, "unit")
    /\ UNCHANGED <<storeVars, passVars, next_id, steps, step_start>>

\* ForceCalculator::calculate_force(force_type, particle, Some(other)) for
\* every ordered pair of the store, as the pair loop of apply_forces calls
\* it; ret[i][j] is the force on particle i from particle j
CalculateForce(ft) ==
    /\ phase = "idle"
    /\ last.op = "new"
    /\ last' = Last("calculate_force", particles, ft,
                    [i \in 1..Len(particles) |->
                        [j \in 1..Len(particles) |->
                            IF i = j THEN ZERO
                            ELSE calculate_force(ft, particles[i],
                                                 particles[j], TRUE,
                                                 NoDraw)]])
    /\ UNCHANGED <<storeVars, engineVars, phase, passVars, next_id, steps,
                   verlet_used, verletGhost, registered,
                   spatialVars, config_forces>>

\* ForceCalculator::calculate_force(force_type, particle, None) for every
\* particle of the store, as apply_global_forces calls it
CalculateGlobalForce(ft) ==
    /\ phase = "idle"
    /\ last.op = "new"
    /\ last' = Last("calculate_global_force", particles, ft,
                    [i \in 1..Len(particles) |->
                        calculate_force(ft, particles[i], particles[i],
                                        FALSE, NoDraw)])
    /\ UNCHANGED <<storeVars, engineVars, phase, passVars, next_id, steps,
                   verlet_used, verletGhost, registered,
                   spatialVars, config_forces>>

\* ForceCalculator::calculate_flocking_force(particle, index, all_particles,
\* force_type) for every particle of the store
CalculateFlockingForce(ft) ==
    /\ phase = "idle"
    /\ last.op = "new"
    /\ last' = Last("calculate_flocking_force", particles, ft,
                    [i \in 1..Len(particles) |->
                        calculate_flocking_force(particles[i], i, particles,
                                                 ft)])
    /\ UNCHANGED <<storeVars, engineVars, phase, passVars, next_id, steps,
                   verlet_used, verletGhost, registered,
                   spatialVars, config_forces>>

\* the caller switches config.integration_method between two steps
SetIntegrationMethod(m) ==
    /\ m # config.integration_method
    /\ phase = "idle"
    /\ config' = [config EXCEPT !.integration_method = m]
    /\ last' = Last("set_integration_method", particles, NoArg, "unit")
    /\ verlet_used' = NotUsed
    /\ UNCHANGED <<storeVars, interaction_matrix, global_forces,
                   previous_positions, phase, passVars, next_id, steps,
                   verletGhost, registered,
                   spatialVars, config_forces>>

\* ForceCalculator::apply_forces called by the caller itself, as the
\* examples do before ParticleSystem::update
ApplyForces(rnd) ==
    /\ steps < MaxSteps
    /\ phase = "idle"
    /\ particles' = apply_forces(particles, interaction_matrix, global_forces,
                                 rnd)
    /\ phase' = "accumulated"
    /\ last' = Last("apply_forces", particles, NoArg, "unit")
    /\ verlet_used' = NotUsed
    /\ UNCHANGED <<spawn_timer, sysConf, engineVars, passVars, next_id, steps,
                   verletGhost, registered,
                   spatialVars, config_forces>>

\* PhysicsEngine::update(system)
EngineUpdate(rnd) ==
    /\ steps < MaxSteps
    /\ phase = "idle"
    /\ LET u == PhysicsEngine_update(particles, previous_positions, config,
                                     interaction_matrix, global_forces, rnd)
           verlet == config.integration_method = "Verlet"
           reset == Len(previous_positions) # Len(particles)
       IN  /\ particles' = u.particles
           /\ previous_positions' = u.previous_positions
           /\ verlet_used' =
                 IF verlet
                 THEN [ran |-> TRUE, reset |-> reset,
                       cache |-> verlet_cache(particles, previous_positions),
                       owner |-> IF reset THEN Ids(particles) ELSE prev_owner,
                       start |-> step_start]
                 ELSE NotUsed
           /\ prev_owner' = IF verlet THEN Ids(particles) ELSE prev_owner
    /\ step_start' = Starts(particles)
    /\ last' = Last("PhysicsEngine_update", particles, NoArg, "unit")
    /\ steps' = steps + 1
    /\ UNCHANGED <<spawn_timer, sysConf, engineConf, phase, passVars, next_id,
                   registered,
                   spatialVars, config_forces>>

\* the draws of a pass over the current particles, from the pairs in D
Rnd(D) == [BrownianSites(particles, interaction_matrix, global_forces) -> D]

\* InteractionMatrix::add_interaction(species_a, species_b, force) on the
\* calculator's matrix; registered is the history of the calls
AddInteraction(species_a, species_b, force) ==
    /\ phase # "pass"
    /\ Len(registered) + Len(global_forces) < MaxForces
    /\ interaction_matrix' = add_interaction(interaction_matrix, species_a,
                                             species_b, force)
    /\ registered' = Append(registered, [species_a |-> species_a,
                                         species_b |-> species_b,
                                         force |-> force])
    /\ last' = Last("add_interaction", particles,
                    [species_a |-> species_a, species_b |-> species_b,
                     force |-> force, matrix |-> interaction_matrix], "unit")
    /\ verlet_used' = NotUsed
    /\ UNCHANGED <<storeVars, config, global_forces, previous_positions,
                   phase, passVars, next_id, steps, verletGhost,
                   spatialVars, config_forces>>

\* ForceCalculator::add_global_force(force)
AddGlobalForce(force) ==
    /\ phase # "pass"
    /\ Len(registered) + Len(global_forces) < MaxForces
    /\ global_forces' = Append(global_forces, force)
    /\ last' = Last("add_global_force", particles, force, "unit")
    /\ verlet_used' = NotUsed
    /\ UNCHANGED <<storeVars, config, interaction_matrix, previous_positions,
                   phase, passVars, next_id, steps, verletGhost, registered,
                   spatialVars, config_forces>>

\* ForceCalculator::apply_forces taken apart: the snapshot ..
PassBegin ==
    /\ steps < MaxSteps
    /\ phase = "idle"
    /\ particles_copy' = particles
    /\ pending' = 1..Len(particles)
    /\ visited' = <<>>
    /\ drawn' = <<>>
    /\ phase' = "pass"
    /\ verlet_used' = NotUsed
    /\ UNCHANGED <<storeVars, engineVars, last, next_id, steps, verletGhost,
                   registered,
                   spatialVars, config_forces>>

\* the sites at which the loop body of index i draws
PassSites(i) ==
    { site \in BrownianSites(particles_copy, interaction_matrix,
                             global_forces) : site[1] = i }

\* .. the body of its loop for one index, the indices taken in any order ..
PassIter(i, rnd) ==
    /\ phase = "pass"
    /\ i \in pending
    /\ particles' = apply_forces_iter(particles, i, particles_copy,
                                      interaction_matrix, global_forces, rnd)
    /\ pending' = pending \ {i}
    /\ visited' = Append(visited, i)
    /\ drawn' = [site \in DOMAIN drawn \cup DOMAIN rnd |->
                    IF site \in DOMAIN rnd THEN rnd[site] ELSE drawn[site]]
    /\ UNCHANGED <<spawn_timer, sysConf, engineVars, phase, particles_copy,
                   ghostVars,
                   spatialVars, config_forces>>

\* .. and its return
PassEnd ==
    /\ phase = "pass"
    /\ pending = {}
    /\ phase' = "accumulated"
    /\ last' = Last("apply_forces", particles_copy, NoArg, "unit")
    /\ UNCHANGED <<storeVars, engineVars, passVars, next_id, steps,
                   verlet_used, verletGhost, registered,
                   spatialVars, config_forces>>

\* ---------------------------------------------------------- the step pipeline
\* A store of capacity 2 built by ParticleSystem::new or by a preset, and an
\* engine built from the default configuration (Verlet) with a step of 0.5,
\* a speed limit of 1.5, and collisions off or on
Init ==
    \E bnd \in {NoBounds} \cup { SomeBounds(b[1], b[2]) : b \in BoundsInputs },
       c \in BOOLEAN :
        /\ StoreNew(2, bnd)
        /\ EngineNew(PhysicsConfig("Verlet", 50, 150, c))
        /\ GhostInit

Next ==
    \/ \E p \in ParticleInputs : AddParticle(p)
    \/ \E r \in PipelineDraws : SystemUpdate(60, r)
    \/ \E m \in Methods : SetIntegrationMethod(m)
    \/ \E rnd \in Rnd(PipelineDraws) : ApplyForces(rnd)
    \/ \E rnd \in Rnd(PipelineDraws) : EngineUpdate(rnd)

Spec == Init /\ [][Next]_vars

\* ------------------------------------------------------------------ the store
\* The store alone, of every capacity up to MaxCapacity
StoreInit ==
    \E cap \in 1..MaxCapacity :
        /\ StoreNew(cap, NoBounds)
        /\ EngineNew(PhysicsConfig("Verlet", 50, 150, FALSE))
        /\ GhostInit

StoreNext ==
    \/ \E p \in ParticleInputs : AddParticle(p)
    \/ \E position \in PositionInputs : SpawnParticleAt(position)
    \/ \E dt \in DtInputs, r \in RandDraws : SystemUpdate(dt, r)
    \/ Clear
    \/ \E b \in BoundsInputs : SetBounds(b[1], b[2])

StoreSpec == StoreInit /\ [][StoreNext]_vars

\* ------------------------------------------------------ boundary conditions
\* A store of capacity 2 whose caller sets bounds and switches between the
\* reflective and the wrapping mode, with particles inside and outside
BoundaryInit ==
    /\ StoreNew(2, NoBounds)
    /\ EngineNew(PhysicsConfig("Verlet", 50, 150, FALSE))
    /\ GhostInit

BoundaryNext ==
    \/ \E p \in BoundaryParticles : AddParticle(p)
    \/ \E dt \in DtInputs, r \in RandDraws : SystemUpdate(dt, r)
    \/ \E b \in BoundsInputs : SetBounds(b[1], b[2])
    \/ \E w \in BOOLEAN : SetWrapBoundaries(w)

BoundarySpec == BoundaryInit /\ [][BoundaryNext]_vars

\* --------------------------------------------------------------------- App
\* The application's configuration handlers, and a caller that registers a
\* global force on the public force_calculator of the engine
\* App::new: the configuration is SimulationConfig::default(), the store is
\* generated from the preset ParticleLife, the engine is built from
\* PhysicsConfig::default() (Verlet, dt 1/60, max_velocity 100)
AppInit ==
    \E population \in PresetPopulations :
        LET system == create_particle_system_from_preset(population)
        IN  /\ particles = system.particles
            /\ max_particles = system.max_particles
            /\ spawn_rate = system.spawn_rate
            /\ spawn_timer = 0
            /\ bounds = system.bounds
            /\ wrap_boundaries = FALSE
            /\ damping = system.damping
            /\ next_id = Len(system.particles) + 1
            /\ EngineNew(PhysicsConfig("Verlet", Div(SCALE, 6000), 10000,
                                       FALSE))
            /\ config_forces = ForceConfig_default
            /\ spatial_grid = SpatialGrid_new(1000, <<Vec2(-5000, -5000),
                                                      Vec2(5000, 5000)>>)
            /\ spatial_quadtree =
                  QuadTreeManager_new(<<Vec2(-50000, -50000),
                                        Vec2(50000, 50000)>>, 10, 8)
            /\ phase = "idle"
            /\ particles_copy = <<>>
            /\ pending = {}
            /\ visited = <<>>
            /\ drawn = <<>>
            /\ last = Last("new", <<>>, NoArg, "unit")
            /\ steps = 0
            /\ verlet_used = NotUsed
            /\ prev_owner = <<>>
            /\ step_start = <<>>

AppNext ==
    \/ \E preset \in Presets, population \in PresetPopulations :
          ApplyPreset(preset, population)
    \/ ApplyCurrentConfig
    \/ ResetToDefaults
    \/ \E force \in GlobalInputs : AddGlobalForce(force)

AppSpec == AppInit /\ [][AppNext]_vars

\* ----------------------------------------------------------- the pair laws
\* calculate_force on stores of two to MaxBodies bodies
ForceInit ==
    \E n \in 2..MaxBodies : \E bodies \in [1..n -> ForceBodies] :
        /\ particles = [i \in 1..n |-> [bodies[i] EXCEPT !.id = i]]
        /\ max_particles = MaxBodies
        /\ spawn_rate = 1000
        /\ spawn_timer = 0
        /\ bounds = NoBounds
        /\ wrap_boundaries = FALSE
        /\ damping = 99
        /\ next_id = n + 1
        /\ EngineNew(PhysicsConfig("Euler", 50, 150, FALSE))
        /\ config_forces = ForceConfig_default
        /\ SpatialNew(<<Vec2(-5000, -5000), Vec2(5000, 5000)>>)
        /\ phase = "idle"
        /\ particles_copy = <<>>
        /\ pending = {}
        /\ visited = <<>>
        /\ drawn = <<>>
        /\ last = Last("new", <<>>, NoArg, "unit")
        /\ steps = 0
        /\ verlet_used = NotUsed
        /\ prev_owner = <<>>
        /\ step_start = <<>>

ForceNext == \E ft \in PairLaws : CalculateForce(ft)

ForceSpec == ForceInit /\ [][ForceNext]_vars

\* ------------------------------------------------------------- every law
\* calculate_force with and without another particle, and
\* calculate_flocking_force, on stores of two to MaxBodies bodies that may
\* coincide
LawInit ==
    \E n \in 2..MaxBodies : \E bodies \in [1..n -> LawBodies] :
        /\ particles = [i \in 1..n |-> [bodies[i] EXCEPT !.id = i]]
        /\ max_particles = MaxBodies
        /\ spawn_rate = 1000
        /\ spawn_timer = 0
        /\ bounds = NoBounds
        /\ wrap_boundaries = FALSE
        /\ damping = 99
        /\ next_id = n + 1
        /\ EngineNew(PhysicsConfig("Euler", 50, 150, FALSE))
        /\ config_forces = ForceConfig_default
        /\ SpatialNew(<<Vec2(-5000, -5000), Vec2(5000, 5000)>>)
        /\ phase = "idle"
        /\ particles_copy = <<>>
        /\ pending = {}
        /\ visited = <<>>
        /\ drawn = <<>>
        /\ last = Last("new", <<>>, NoArg, "unit")
        /\ steps = 0
        /\ verlet_used = NotUsed
        /\ prev_owner = <<>>
        /\ step_start = <<>>

LawNext ==
    \/ \E ft \in EachLaw : CalculateForce(ft)
    \/ \E ft \in SingleLaws : CalculateGlobalForce(ft)
    \/ \E ft \in FlockingLaws : CalculateFlockingForce(ft)

LawSpec == LawInit /\ [][LawNext]_vars

\* ------------------------------------------------------ accumulated forces
\* moving bodies without mass, of mass 1 and of mass 2
AccumBodies ==
    { with_mass(with_velocity(Particle_new(ZERO), Vec2(400, -200)), mass) :
        mass \in {0, 100, 200} }
\* the calculator as new, or with one global Damping
AccumGlobals == { <<>>, <<Damping(50)>> }
\* the pair every Brownian law of a pass draws: the middle of [0, 1), or its
\* two ends
AccumDraws == { <<50, 50>>, <<0, 99>> }
AccumForces == { Vec2(400, 100) }

\* particles[i].apply_force(force) and particles[i].apply_impulse(impulse) by
\* the caller, before or after a pass
ApplyForce(i, force) ==
    /\ \/ phase = "idle" /\ last.op = "new"
       \/ phase = "accumulated" /\ last.op = "apply_forces"
    /\ i \in 1..Len(particles)
    /\ particles' = [particles EXCEPT ![i] = apply_force(particles[i], force)]
    /\ last' = Last("apply_force", particles, [index |-> i, force |-> force],
                    "unit")
    /\ UNCHANGED <<spawn_timer, sysConf, engineVars, phase, passVars, next_id,
                   steps, verlet_used, verletGhost, registered,
                   spatialVars, config_forces>>

ApplyImpulse(i, impulse) ==
    /\ \/ phase = "idle" /\ last.op = "new"
       \/ phase = "accumulated" /\ last.op = "apply_forces"
    /\ i \in 1..Len(particles)
    /\ particles' = [particles EXCEPT
                        ![i] = apply_impulse(particles[i], impulse)]
    /\ last' = Last("apply_impulse", particles,
                    [index |-> i, force |-> impulse], "unit")
    /\ UNCHANGED <<spawn_timer, sysConf, engineVars, phase, passVars, next_id,
                   steps, verlet_used, verletGhost, registered,
                   spatialVars, config_forces>>

\* one to MaxBodies bodies under the default matrix
AccumInit ==
    \E n \in 1..MaxBodies : \E bodies \in [1..n -> AccumBodies] :
      \E gf \in AccumGlobals :
        /\ particles = [i \in 1..n |-> [bodies[i] EXCEPT !.id = i]]
        /\ max_particles = MaxBodies
        /\ spawn_rate = 1000
        /\ spawn_timer = 0
        /\ bounds = NoBounds
        /\ wrap_boundaries = FALSE
        /\ damping = 99
        /\ next_id = n + 1
        /\ EngineSetUp(PhysicsConfig("Euler", 50, 150, FALSE), <<>>, gf)
        /\ config_forces = ForceConfig_default
        /\ SpatialNew(<<Vec2(-5000, -5000), Vec2(5000, 5000)>>)
        /\ phase = "idle"
        /\ particles_copy = <<>>
        /\ pending = {}
        /\ visited = <<>>
        /\ drawn = <<>>
        /\ last = Last("new", <<>>, NoArg, "unit")
        /\ steps = 0
        /\ verlet_used = NotUsed
        /\ prev_owner = <<>>
        /\ step_start = <<>>

AccumNext ==
    \/ \E i \in 1..MaxBodies : \E f \in AccumForces : ApplyForce(i, f)
    \/ \E i \in 1..MaxBodies : \E f \in AccumForces : ApplyImpulse(i, f)
    \/ \E r \in AccumDraws :
          ApplyForces([site \in BrownianSites(particles, interaction_matrix,
                                              global_forces) |-> r])

AccumSpec == AccumInit /\ [][AccumNext]_vars

\* ----------------------------------------------------------------- pruning
\* particles that live for ever, for 1.0, and not at all
PruneBodies ==
    { with_lifespan(Particle_new(ZERO), lifespan) :
        lifespan \in {INFINITY, 100, 0} }
\* frame times: none (the particles do not age) and 0.6
PruneDts == {0, 60}

\* a store of up to MaxBodies such particles, without bounds
PruneInit ==
    \E n \in 0..MaxBodies : \E bodies \in [1..n -> PruneBodies] :
        /\ particles = [i \in 1..n |-> [bodies[i] EXCEPT !.id = i]]
        /\ max_particles = MaxBodies
        /\ spawn_rate = 1000
        /\ spawn_timer = 0
        /\ bounds = NoBounds
        /\ wrap_boundaries = FALSE
        /\ damping = 99
        /\ next_id = n + 1
        /\ EngineNew(PhysicsConfig("Euler", 50, 150, FALSE))
        /\ config_forces = ForceConfig_default
        /\ SpatialNew(<<Vec2(-5000, -5000), Vec2(5000, 5000)>>)
        /\ phase = "idle"
        /\ particles_copy = <<>>
        /\ pending = {}
        /\ visited = <<>>
        /\ drawn = <<>>
        /\ last = Last("new", <<>>, NoArg, "unit")
        /\ steps = 0
        /\ verlet_used = NotUsed
        /\ prev_owner = <<>>
        /\ step_start = <<>>

PruneNext == \E dt \in PruneDts, r \in PipelineDraws : SystemUpdate(dt, r)

PruneSpec == PruneInit /\ [][PruneNext]_vars

\* ------------------------------------------------------------ Verlet steps
\* bodies at rest and moving
VerletBodies ==
    { with_velocity(Particle_new(position), velocity) :
        position \in { ZERO, Vec2(300, 400) },
        velocity \in { ZERO, Vec2(100, 0) } }
\* forces the caller applies before the first step: (1, 0) gives a speed
\* below max_velocity, (4, 1) one above
VerletForces == { Vec2(100, 0), Vec2(400, 100) }

\* for p in &mut system.particles { p.velocity = -p.velocity } by the caller,
\* after a step
ReverseVelocity ==
    /\ phase = "idle"
    /\ last.op = "PhysicsEngine_update"
    /\ particles' = [i \in 1..Len(particles) |->
                        [particles[i] EXCEPT !.velocity = VNeg(@)]]
    /\ last' = Last("reverse_velocity", particles, NoArg, "unit")
    /\ verlet_used' = NotUsed
    /\ UNCHANGED <<spawn_timer, sysConf, engineVars, phase, passVars, next_id,
                   steps, verletGhost, registered,
                   spatialVars, config_forces>>

\* one or two bodies and a new engine that integrates by Verlet with a step
\* of 0.5 and max_velocity 1.5
VerletInit ==
    \E n \in 1..MaxCapacity : \E bodies \in [1..n -> VerletBodies] :
        /\ particles = [i \in 1..n |-> [bodies[i] EXCEPT !.id = i]]
        /\ max_particles = MaxCapacity
        /\ spawn_rate = 1000
        /\ spawn_timer = 0
        /\ bounds = NoBounds
        /\ wrap_boundaries = FALSE
        /\ damping = 99
        /\ next_id = n + 1
        /\ EngineNew(PhysicsConfig("Verlet", 50, 150, FALSE))
        /\ config_forces = ForceConfig_default
        /\ SpatialNew(<<Vec2(-5000, -5000), Vec2(5000, 5000)>>)
        /\ phase = "idle"
        /\ particles_copy = <<>>
        /\ pending = {}
        /\ visited = <<>>
        /\ drawn = <<>>
        /\ last = Last("new", <<>>, NoArg, "unit")
        /\ steps = 0
        /\ verlet_used = NotUsed
        /\ prev_owner = <<>>
        /\ step_start = <<>>

VerletNext ==
    \/ \E i \in 1..MaxCapacity : \E f \in VerletForces : ApplyForce(i, f)
    \/ \E r \in AccumDraws :
          EngineUpdate([site \in BrownianSites(particles, interaction_matrix,
                                               global_forces) |-> r])
    \/ ReverseVelocity

VerletSpec == VerletInit /\ [][VerletNext]_vars

\* -------------------------------------------------------- the force pass
\* Steps of the examples' pipeline, apply_forces then ParticleSystem::update,
\* with the loop of apply_forces visiting the indices in any order
\* The calculator as new, or set up with one law for the pair of species
\* (1, 0), or with one global law, or with both
PassInit ==
    \E reg \in {<<>>} \cup { <<[species_a |-> c[1], species_b |-> c[2],
                                 force |-> f]>> :
                                  c \in PassPairs, f \in LawInputs },
       gf \in {<<>>} \cup { <<f>> : f \in GlobalInputs } :
        /\ StoreNew(MaxCapacity, NoBounds)
        /\ EngineSetUp(PhysicsConfig("Euler", 50, 150, FALSE), reg, gf)
        /\ GhostInit

PassNext ==
    \/ \E p \in ParticleInputs : AddParticle(p)
    \/ PassBegin
    \/ \E i \in pending : \E rnd \in [PassSites(i) -> PipelineDraws] :
          PassIter(i, rnd)
    \/ PassEnd
    \/ \E r \in PipelineDraws : SystemUpdate(60, r)

PassSpec == PassInit /\ [][PassNext]_vars

\* ------------------------------------------------------ the spatial indices
\* SpatialPartitioning::update(particles) on the grid
GridUpdate(positions) ==
    /\ spatial_grid' = SpatialGrid_update(spatial_grid, positions)
    /\ last' = Last("SpatialGrid_update", particles, positions, "unit")
    /\ verlet_used' = NotUsed
    /\ UNCHANGED <<storeVars, engineVars, phase, passVars, spatial_quadtree,
                   next_id, steps, verletGhost, registered, config_forces>>

\* SpatialPartitioning::update(particles) on the quadtree
QuadTreeUpdate(positions) ==
    /\ spatial_quadtree' = QuadTreeManager_update(spatial_quadtree, positions)
    /\ last' = Last("QuadTreeManager_update", particles, positions, "unit")
    /\ verlet_used' = NotUsed
    /\ UNCHANGED <<storeVars, engineVars, phase, passVars, spatial_grid,
                   next_id, steps, verletGhost, registered, config_forces>>

SpatialInit ==
    /\ StoreNew(MaxCapacity, NoBounds)
    /\ EngineNew(PhysicsConfig("Euler", 50, 150, FALSE))
    /\ GhostInit

SpatialNext ==
    \/ \E positions \in Slices : GridUpdate(positions)
    \/ \E positions \in Slices : QuadTreeUpdate(positions)

SpatialSpec == SpatialInit /\ [][SpatialNext]_vars

\* ------------------------------------------------------- quadtree inserts
\* positions in bounds of +-50: two in the same quarter of a quarter, the
\* center, which lies on the edge of all four children, and one outside
TreePositions ==
    { Vec2(-4000, -4000), Vec2(-3000, -3000), Vec2(0, 0), Vec2(6000, 0) }
TreeCapacities == {1, 2}
TreeDepths == {1, 2}

\* QuadTree::insert(index, position) of the next index, the position kept
\* beside the tree as QuadTreeManager::update keeps it
QuadTreeInsert(position) ==
    /\ Len(spatial_quadtree.particle_positions) < MaxIndices
    /\ LET r == QuadTree_insert(spatial_quadtree.quadtree, <<>>,
                                Len(spatial_quadtree.particle_positions),
                                position, 0)
       IN  /\ spatial_quadtree' =
                 [quadtree |-> r.tree,
                  particle_positions |->
                      Append(spatial_quadtree.particle_positions, position)]
           /\ last' = Last("QuadTree_insert", particles, position, r.ok)
    /\ verlet_used' = NotUsed
    /\ UNCHANGED <<storeVars, engineVars, phase, passVars, spatial_grid,
                   next_id, steps, verletGhost, registered, config_forces>>

\* QuadTree::clear()
QuadTreeClear ==
    /\ spatial_quadtree.particle_positions # <<>>
    /\ LET root == spatial_quadtree.quadtree[<<>>]
       IN  spatial_quadtree' =
               QuadTreeManager_new(root.bounds, root.max_particles,
                                   root.max_depth)
    /\ last' = Last("QuadTree_clear", particles, NoArg, "unit")
    /\ verlet_used' = NotUsed
    /\ UNCHANGED <<storeVars, engineVars, phase, passVars, spatial_grid,
                   next_id, steps, verletGhost, registered, config_forces>>

\* QuadTree::new with a capacity per node of 1 or 2 and a max_depth of 1 or 2
TreeInit ==
    \E cap \in TreeCapacities, depth \in TreeDepths :
        /\ StoreNew(MaxCapacity, NoBounds)
        /\ EngineNew(PhysicsConfig("Euler", 50, 150, FALSE))
        /\ config_forces = ForceConfig_default
        /\ spatial_grid =
              SpatialGrid_new(1000, <<Vec2(-5000, -5000), Vec2(5000, 5000)>>)
        /\ spatial_quadtree =
              QuadTreeManager_new(<<Vec2(-5000, -5000), Vec2(5000, 5000)>>,
                                  cap, depth)
        /\ phase = "idle"
        /\ particles_copy = <<>>
        /\ pending = {}
        /\ visited = <<>>
        /\ drawn = <<>>
        /\ last = Last("new", <<>>, NoArg, "unit")
        /\ next_id = 1
        /\ steps = 0
        /\ verlet_used = NotUsed
        /\ prev_owner = <<>>
        /\ step_start = <<>>

TreeNext ==
    \/ \E position \in TreePositions : QuadTreeInsert(position)
    \/ QuadTreeClear

TreeSpec == TreeInit /\ [][TreeNext]_vars

\* ------------------------------------------------- setting up the calculator
Species == 0..MaxSpecies

MatrixInit ==
    /\ StoreNew(MaxCapacity, NoBounds)
    /\ EngineNew(PhysicsConfig("Euler", 50, 150, FALSE))
    /\ GhostInit

MatrixNext ==
    \/ \E a \in Species, b \in Species, f \in LawInputs :
          AddInteraction(a, b, f)
    \/ \E f \in GlobalInputs : AddGlobalForce(f)

MatrixSpec == MatrixInit /\ [][MatrixNext]_vars

\* ===================================================================== claims
HasId(ps, id) == \E i \in 1..Len(ps) : ps[i].id = id
SpeedWithin(p, max) == RawLenSq(p.velocity) <= max * max
PassOps == {"apply_forces", "PhysicsEngine_update"}

\* C1: whatever add_particle, spawn_particle_at, update (with its timed
\* auto-spawn) and clear calls were made, the store never holds more than
\* max_particles particles.
C1_CapacityNeverExceeded == Len(particles) <= max_particles

\* an update whose auto-spawn was due on a full store, which stayed full
C1_Witness ==
    /\ last.op = "ParticleSystem_update"
    /\ bounds.some /\ spawn_timer = 0
    /\ Len(last.before) = max_particles
    /\ Len(particles) = max_particles

\* C2 as stated: a rejected insertion returns false, an accepted one true.
C2_Original ==
    last.op = "add_particle" =>
        IF Len(last.before) >= max_particles
        THEN particles = last.before /\ last.ret = "false"
        ELSE particles = Append(last.before, last.arg) /\ last.ret = "true"

\* C2 as amended: an insertion into a full store leaves the contents as they
\* were, an insertion below capacity appends the particle, and in both cases
\* add_particle returns nothing: the caller is not told of a rejection.
C2_InsertReturnsNothing ==
    last.op = "add_particle" =>
        /\ last.ret = "unit"
        /\ IF Len(last.before) >= max_particles
           THEN particles = last.before
           ELSE particles = Append(last.before, last.arg)

\* an insertion that a full store rejected
C2_Witness ==
    /\ last.op = "add_particle"
    /\ Len(last.before) = max_particles
    /\ particles = last.before

\* C3: after every ParticleSystem::update no particle with age >= lifespan
\* is left; a particle whose age reaches its lifespan in the update (such as
\* lifespan 1.0 after two steps of 0.6) is gone; a particle with an infinite
\* lifespan is still there.
C3_NoDeadAfterUpdate ==
    last.op = "ParticleSystem_update" =>
        /\ \A i \in 1..Len(particles) :
              particles[i].age < particles[i].lifespan
        /\ \A k \in 1..Len(last.before) :
              /\ last.before[k].age + last.arg >= last.before[k].lifespan
                    => ~HasId(particles, last.before[k].id)
              /\ last.before[k].lifespan = INFINITY
                    => HasId(particles, last.before[k].id)

\* the second 0.6 step of a particle of lifespan 1.0 removed it, and an
\* immortal particle went through the same update
C3_Witness ==
    /\ last.op = "ParticleSystem_update" /\ last.arg = 60
    /\ \E k \in 1..Len(last.before) :
          /\ last.before[k].lifespan = 100 /\ last.before[k].age = 60
          /\ ~HasId(particles, last.before[k].id)
    /\ \E k \in 1..Len(last.before) :
          /\ last.before[k].lifespan = INFINITY
          /\ HasId(particles, last.before[k].id)

\* C4: in the step pipeline every acceleration accumulator is (0,0) when a
\* force-accumulation pass begins: in every state from which a pass may start
\* (phase "idle"), and in the state each pass did start from.
C4_AccumulatorZeroAtPassStart ==
    /\ phase = "idle" =>
          \A i \in 1..Len(particles) : particles[i].acceleration = ZERO
    /\ last.op \in PassOps =>
          \A i \in 1..Len(last.before) : last.before[i].acceleration = ZERO

\* a pass, not the first step of the run, that left a non-zero accumulator
C4_Witness ==
    /\ last.op = "apply_forces" /\ steps >= 1
    /\ \E i \in 1..Len(particles) : particles[i].acceleration # ZERO

\* the snapshot of the pass that is running or has just returned
PassSnapshot == IF phase = "pass" THEN particles_copy ELSE last.before
\* the forces registered for the unordered pair {a, b}, in call order
RECURSIVE PairList(_, _, _, _)
PairList(reg, a, b, n) ==
    IF n = 0 THEN <<>>
    ELSE IF {reg[n].species_a, reg[n].species_b} = {a, b}
         THEN Append(PairList(reg, a, b, n - 1), reg[n].force)
         ELSE PairList(reg, a, b, n - 1)
\* the keys of the map that stand for the unordered pair {a, b}
KeysOf(im, a, b) ==
    { k \in DOMAIN im.interactions : {k[1], k[2]} = {a, b} }

\* C5: while apply_forces runs and when it has returned, the store has the
\* count and the order of the snapshot, every particle differs from its
\* snapshot in the acceleration at most, a particle not yet visited is
\* untouched, and a visited one holds what the loop body computes for it from
\* the snapshot alone.
C5_PassWritesOwnAccelerationOnly ==
    (phase = "pass" \/ last.op = "apply_forces") =>
        /\ Len(particles) = Len(PassSnapshot)
        /\ \A i \in 1..Len(PassSnapshot) :
              /\ [particles[i] EXCEPT !.acceleration =
                                          PassSnapshot[i].acceleration]
                    = PassSnapshot[i]
              /\ i \in pending => particles[i] = PassSnapshot[i]
              /\ i \notin pending =>
                    particles[i] =
                        apply_forces_iter(PassSnapshot, i, PassSnapshot,
                                          interaction_matrix, global_forces,
                                          drawn)[i]

\* in the middle of a pass: one particle has got its acceleration, another
\* has not been visited yet
C5_Witness ==
    /\ phase = "pass" /\ pending # {}
    /\ \E i \in 1..Len(particles) :
          /\ i \notin pending
          /\ particles[i].acceleration # particles_copy[i].acceleration

\* C6: when no law of a pass draws random numbers, the pass leaves the
\* particles that the loop in index order leaves, in whatever order the
\* indices were visited.
C6_OrderIndependent ==
    (/\ last.op = "apply_forces"
     /\ BrownianSites(last.before, interaction_matrix, global_forces) = {}) =>
        particles = apply_forces(last.before, interaction_matrix,
                                 global_forces, <<>>)

\* a pass without random laws that visited index 2 before index 1 and
\* accumulated a force
C6_Witness ==
    /\ last.op = "apply_forces"
    /\ BrownianSites(last.before, interaction_matrix, global_forces) = {}
    /\ Len(visited) = 2 /\ visited[1] = 2
    /\ \E i \in 1..Len(particles) : particles[i].acceleration # ZERO

\* C7: get_forces gives the same list for (a, b) and (b, a); a call of
\* add_interaction(a, b, f) leaves the matrix that add_interaction(b, a, f)
\* leaves; and it appends f to the one list the map keeps for the pair.
C7_PairSymmetric ==
    /\ \A a \in Species, b \in Species :
          get_forces(interaction_matrix, a, b)
              = get_forces(interaction_matrix, b, a)
    /\ last.op = "add_interaction" =>
          LET a == last.arg.species_a
              b == last.arg.species_b
              old == last.arg.matrix
              before == IF KeysOf(old, a, b) = {} THEN <<>>
                        ELSE old.interactions[CHOOSE k \in KeysOf(old, a, b) :
                                                 TRUE]
          IN  /\ interaction_matrix = add_interaction(old, b, a, last.arg.force)
              /\ Cardinality(KeysOf(interaction_matrix, a, b)) = 1
              /\ get_forces(interaction_matrix, a, b)
                    = Append(before, last.arg.force)

\* two calls for the same two distinct species, in the two orders
C7_Witness ==
    /\ last.op = "add_interaction" /\ Len(registered) = 2
    /\ registered[1].species_a < registered[1].species_b
    /\ registered[2].species_a = registered[1].species_b
    /\ registered[2].species_b = registered[1].species_a
    /\ get_forces(interaction_matrix, registered[1].species_a,
                  registered[1].species_b)
          = <<registered[1].force, registered[2].force>>

\* C8: get_forces answers for every pair of species: with the forces
\* registered for the pair, in call order, or with default_forces if none
\* was registered; and a registration leaves the answer for every other pair
\* as it was.
C8_TotalWithDefault ==
    /\ \A a \in 0..MaxSpecies + 1, b \in 0..MaxSpecies + 1 :
          get_forces(interaction_matrix, a, b)
              = IF PairList(registered, a, b, Len(registered)) = <<>>
                THEN interaction_matrix.default_forces
                ELSE PairList(registered, a, b, Len(registered))
    /\ last.op = "add_interaction" =>
          \A c \in 0..MaxSpecies + 1, d \in 0..MaxSpecies + 1 :
              {c, d} # {last.arg.species_a, last.arg.species_b} =>
                  get_forces(interaction_matrix, c, d)
                      = get_forces(last.arg.matrix, c, d)

\* a second pair registered while the first keeps its list and a third pair
\* still gets default_forces
C8_Witness ==
    /\ last.op = "add_interaction" /\ Len(registered) = 2
    /\ {registered[1].species_a, registered[1].species_b}
          # {registered[2].species_a, registered[2].species_b}
    /\ get_forces(interaction_matrix, registered[1].species_a,
                  registered[1].species_b) = <<registered[1].force>>
    /\ \E c \in Species, d \in Species :
          get_forces(interaction_matrix, c, d)
              = interaction_matrix.default_forces

SeqToSet(seq) == { seq[k] : k \in 1..Len(seq) }
NoRepeat(seq) == Cardinality(SeqToSet(seq)) = Len(seq)
\* the places <<cell, k>> of a grid and <<path, k>> of a tree holding index
GridPlaces(g, index) ==
    { pl \in UNION { { <<c, k>> : k \in 1..Len(g.grid[c]) } :
                        c \in DOMAIN g.grid } :
        g.grid[pl[1]][pl[2]] = index }
TreePlaces(tree, index) ==
    { pl \in UNION { { <<q, k>> : k \in 1..Len(tree[q].particles) } :
                        q \in DOMAIN tree } :
        tree[pl[1]].particles[pl[2]] = index }
\* the square of the grid that cell stands for contains position
CellContains(g, cell, position) ==
    /\ g.bounds[1].x + cell[1] * g.cell_size <= position.x
    /\ position.x < g.bounds[1].x + (cell[1] + 1) * g.cell_size
    /\ g.bounds[1].y + cell[2] * g.cell_size <= position.y
    /\ position.y < g.bounds[1].y + (cell[2] + 1) * g.cell_size
\* the indices of a slice within radius of position
InRadius(positions, position, radius) ==
    { i \in 0..Len(positions) - 1 :
        RawLenSq(VSub(position, positions[i + 1])) <= radius * radius }

\* C11, the grid: every index of the slice is in exactly one cell, which
\* contains the particle's position, and the grid holds no other index.
C11_GridIndexed ==
    LET g == spatial_grid
        n == Len(g.particle_positions)
    IN  /\ \A c \in DOMAIN g.grid : SeqToSet(g.grid[c]) \subseteq 0..n - 1
        /\ \A i \in 0..n - 1 :
              /\ Cardinality(GridPlaces(g, i)) = 1
              /\ \A pl \in GridPlaces(g, i) :
                    CellContains(g, pl[1], g.particle_positions[i + 1])

\* C11, the quadtree: every index of the slice is in exactly one node, a
\* leaf, whose bounds contain the particle's position, and the tree holds no
\* other index.
C11_QuadTreeIndexed ==
    LET tree == spatial_quadtree.quadtree
        positions == spatial_quadtree.particle_positions
        n == Len(positions)
    IN  /\ \A q \in DOMAIN tree : SeqToSet(tree[q].particles) \subseteq 0..n - 1
        /\ \A i \in 0..n - 1 :
              /\ Cardinality(TreePlaces(tree, i)) = 1
              /\ \A pl \in TreePlaces(tree, i) :
                    /\ ~tree[pl[1]].children
                    /\ contains_point(tree[pl[1]], positions[i + 1])

\* C11: after a rebuild of the grid or of the quadtree from a slice, every
\* index of the slice is stored in exactly one cell or leaf, which contains
\* the particle's position, and no index of an earlier rebuild remains.  It
\* fails for the quadtree: insert refuses a position outside the root's
\* bounds and update drops the refusal; and the first max_particles indices
\* of a node stay in it when it is subdivided.
C11_Original == C11_GridIndexed /\ C11_QuadTreeIndexed

\* C12: after SpatialGrid::update, query_neighbors(p, r) returns the indices
\* of the slice at distance at most r from p, all of them and no other, each
\* once.
C12_GridQueryExact ==
    \A p \in QueryPoints, r \in QueryRadii :
        LET res == SpatialGrid_query_neighbors(spatial_grid, p, r)
        IN  /\ SeqToSet(res) = InRadius(spatial_grid.particle_positions, p, r)
            /\ NoRepeat(res)

\* a rebuilt grid and a query that returns a particle of another cell than
\* the query point's and leaves out a particle that is too far
C12_Witness ==
    /\ last.op = "SpatialGrid_update"
    /\ \E p \in QueryPoints, r \in QueryRadii :
          LET res == SpatialGrid_query_neighbors(spatial_grid, p, r)
              ps == spatial_grid.particle_positions
          IN  /\ \E k \in 1..Len(res) :
                    position_to_cell(spatial_grid, ps[res[k] + 1])
                        # position_to_cell(spatial_grid, p)
              /\ Len(res) < Len(ps)

\* C13 as stated: with particles at (5,5) and (15,15), the query at (0,0)
\* with radius 20 returns both indices and the one with radius 6 neither.
C13_Original ==
    spatial_grid.particle_positions = <<Vec2(500, 500), Vec2(1500, 1500)>> =>
        /\ SeqToSet(SpatialGrid_query_neighbors(spatial_grid, Vec2(0, 0),
                                                2000)) = {0, 1}
        /\ SpatialGrid_query_neighbors(spatial_grid, Vec2(0, 0), 600) = <<>>

\* C13 as amended: with particles at (5,5) and (15,15), the query at (0,0)
\* with radius 20 returns index 0 only ((15,15) is 21.2 away), the one with
\* radius 22 returns both, and the one with radius 6 returns neither.
C13_Scenario ==
    spatial_grid.particle_positions = <<Vec2(500, 500), Vec2(1500, 1500)>> =>
        /\ SpatialGrid_query_neighbors(spatial_grid, Vec2(0, 0), 2000) = <<0>>
        /\ SeqToSet(SpatialGrid_query_neighbors(spatial_grid, Vec2(0, 0),
                                                2200)) = {0, 1}
        /\ SpatialGrid_query_neighbors(spatial_grid, Vec2(0, 0), 600) = <<>>

\* the grid of the scenario, just rebuilt
C13_Witness ==
    /\ last.op = "SpatialGrid_update"
    /\ spatial_grid.cell_size = 1000
    /\ spatial_grid.bounds = <<Vec2(-5000, -5000), Vec2(5000, 5000)>>
    /\ spatial_grid.particle_positions = <<Vec2(500, 500), Vec2(1500, 1500)>>

\* C14: a grid and a quadtree rebuilt from the same slice return the same
\* set of indices from query_neighbors, and the same set from
\* query_neighbors_for_particle.  It fails for a slice with a particle
\* outside the bounds of the quadtree, which the quadtree does not hold.
C14_Original ==
    spatial_grid.particle_positions = spatial_quadtree.particle_positions =>
        /\ \A p \in QueryPoints, r \in QueryRadii :
              SeqToSet(SpatialGrid_query_neighbors(spatial_grid, p, r))
                  = SeqToSet(QuadTreeManager_query_neighbors(
                                 spatial_quadtree, p, r))
        /\ \A i \in 0..Len(spatial_grid.particle_positions) - 1,
              r \in QueryRadii :
              SeqToSet(query_neighbors_in_range(spatial_grid, i, r))
                  = SeqToSet(query_neighbors_for_particle(
                                 spatial_quadtree, i, r))

\* C9: after every PhysicsEngine::update, under each scheme and in every
\* configuration, every speed is at most max_velocity and every accumulator
\* is zero.  It fails when enable_collisions is on: handle_collisions runs
\* after the integrator's clamp and its impulses are not clamped.
C9_Original ==
    last.op = "PhysicsEngine_update" =>
        \A i \in 1..Len(particles) :
            /\ particles[i].acceleration = ZERO
            /\ SpeedWithin(particles[i], config.max_velocity)

\* C9, what does hold: after every PhysicsEngine::update, under each scheme,
\* every accumulator is zero, and every speed is at most max_velocity as
\* long as enable_collisions is off.
C9_ClampedWithoutCollisions ==
    last.op = "PhysicsEngine_update" =>
        \A i \in 1..Len(particles) :
            /\ particles[i].acceleration = ZERO
            /\ ~config.enable_collisions
                  => SpeedWithin(particles[i], config.max_velocity)

\* an update without collisions of a particle that came in faster than
\* max_velocity, after a pass that accumulated a force on it
C9_Witness ==
    /\ last.op = "PhysicsEngine_update" /\ ~config.enable_collisions
    /\ Len(last.before) >= 2
    /\ \E i \in 1..Len(last.before) :
          ~SpeedWithin(last.before[i], config.max_velocity)

\* C10: the previous position a Verlet step uses for index i is
\* cached from the particle now at index i, and is that particle's position
\* at the start of the preceding integration step, or its current position
\* when the step reset the cache.  It fails: the cache is checked by length
\* only, so a prune with an insertion or auto-spawn that keeps the count, or
\* steps of another scheme in between, leave entries of another particle or
\* of an older step.
C10_Original ==
    verlet_used.ran =>
        \A i \in 1..Len(last.before) :
            /\ verlet_used.owner[i] = last.before[i].id
            /\ IF verlet_used.reset
               THEN verlet_used.cache[i] = last.before[i].position
               ELSE \E k \in 1..Len(verlet_used.start) :
                       /\ verlet_used.start[k].id = last.before[i].id
                       /\ verlet_used.start[k].position = verlet_used.cache[i]

\* ---------------------------------------------------------------------- C15
InBounds(p) ==
    /\ bounds.min.x <= p.position.x /\ p.position.x <= bounds.max.x
    /\ bounds.min.y <= p.position.y /\ p.position.y <= bounds.max.y

\* C15: when bounds are set, after every ParticleSystem::update each
\* particle left in the store lies inside the rectangle [min, max] on both
\* axes, in the reflective and in the wrapping mode, wherever it was before
C15_InsideBoundsAfterUpdate ==
    (last.op = "ParticleSystem_update" /\ bounds.some) =>
        \A i \in 1..Len(particles) : InBounds(particles[i])

\* an update in wrapping mode of a store that held a particle further outside
\* the bounds than the rectangle is wide, which is still in the store
C15_Witness ==
    /\ last.op = "ParticleSystem_update"
    /\ bounds.some
    /\ wrap_boundaries
    /\ \E j \in 1..Len(last.before) :
          /\ last.before[j].position.x >
                bounds.max.x + (bounds.max.x - bounds.min.x)
          /\ HasId(particles, last.before[j].id)

\* ---------------------------------------------------------------------- C16
\* the claim as the specification states it: a simulation step never
\* increases the particle count
C16_Original ==
    /\ last.op = "PhysicsEngine_update" => Len(particles) <= Len(last.before)
    /\ last.op = "ParticleSystem_update" => Len(particles) <= Len(last.before)

\* C16: PhysicsEngine::update keeps the particle count; ParticleSystem::update
\* raises it by at most one, and only by its auto-spawn: bounds are set, the
\* store was below capacity, and the spawn timer has been reset to zero.
\* Without bounds the count never grows in a step.
C16_StepGrowsOnlyByAutoSpawn ==
    /\ last.op = "PhysicsEngine_update" => Len(particles) = Len(last.before)
    /\ last.op = "ParticleSystem_update" =>
          /\ Len(particles) <= Len(last.before) + 1
          /\ Len(particles) > Len(last.before) =>
                /\ bounds.some
                /\ Len(last.before) < max_particles
                /\ spawn_timer = 0
                /\ ~HasId(last.before, particles[Len(particles)].id)
                /\ InBounds(particles[Len(particles)])

\* a ParticleSystem::update, after a PhysicsEngine::update in the run, that
\* left one particle more in the store than it found
C16_Witness ==
    /\ last.op = "ParticleSystem_update"
    /\ Len(last.before) > 0
    /\ step_start # <<>>
    /\ Len(particles) = Len(last.before) + 1

\* ---------------------------------------------------------------------- C17
ById(ps, id) == ps[CHOOSE j \in 1..Len(ps) : ps[j].id = id]
KineticEnergy(p) == Mul(Mul(length_squared(p.velocity), 50), p.mass)
\* the particle as Particle::update leaves it, before the boundary conditions
Moved(b, dt) == update_one(b, dt, NoBounds, wrap_boundaries, damping)
StaysInside(b, dt) == ~bounds.some \/ InBounds(Moved(b, dt))

\* the claim as the specification states it: ParticleSystem::update(dt)
\* advances the age by dt, leaves position and velocity of a particle that
\* stays inside the bounds as they were, and the stored energy is
\* 1/2 * mass * |velocity|^2 of the final velocity
C17_Original ==
    last.op = "ParticleSystem_update" =>
        \A i \in 1..Len(particles) :
            HasId(last.before, particles[i].id) =>
                LET b == ById(last.before, particles[i].id)
                    p == particles[i]
                IN  /\ p.age = b.age + last.arg
                    /\ p.energy = KineticEnergy(p)
                    /\ StaysInside(b, last.arg) =>
                          /\ p.position = b.position
                          /\ p.velocity = b.velocity

\* C17 (what the code does): ParticleSystem::update(dt) advances the age by
\* dt, multiplies the velocity by the damping and adds acceleration * dt,
\* moves the position by that velocity * dt, and stores the energy of that
\* velocity; the boundary conditions act afterwards and leave the energy
\* alone, so the stored energy is that of the final velocity for a particle
\* that stays inside the bounds
C17_MovesAndStoresEnergy ==
    last.op = "ParticleSystem_update" =>
        \A i \in 1..Len(particles) :
            HasId(last.before, particles[i].id) =>
                LET b == ById(last.before, particles[i].id)
                    p == particles[i]
                    u == VAdd(VScale(b.velocity, damping),
                              VScale(b.acceleration, last.arg))
                IN  /\ p.age = b.age + last.arg
                    /\ p.acceleration = ZERO
                    /\ p.energy = Mul(Mul(length_squared(u), 50), p.mass)
                    /\ StaysInside(b, last.arg) =>
                          /\ p.velocity = u
                          /\ p.position = VAdd(b.position,
                                               VScale(u, last.arg))
                          /\ p.energy = KineticEnergy(p)

\* an update that found a moving particle, after a PhysicsEngine::update in
\* the run, and left it in the store inside the bounds
C17_Witness ==
    /\ last.op = "ParticleSystem_update"
    /\ step_start # <<>>
    /\ \E i \in 1..Len(particles) :
          /\ HasId(last.before, particles[i].id)
          /\ ById(last.before, particles[i].id).velocity # ZERO
          /\ particles[i].velocity # ZERO
          /\ StaysInside(ById(last.before, particles[i].id), last.arg)

\* ---------------------------------------------------------------------- C18
ConfigOps == {"apply_preset", "apply_current_config", "reset_to_defaults"}

\* the claim as the specification states it: after App::apply_preset or
\* App::apply_current_config the engine's global force list equals
\* config.forces.global_forces and its matrix holds the lists of
\* config.forces.species_interactions
C18_Original ==
    last.op \in ConfigOps =>
        /\ global_forces = config_forces.global_forces
        /\ \A key \in DOMAIN config_forces.species_interactions :
              /\ key \in DOMAIN interaction_matrix.interactions
              /\ interaction_matrix.interactions[key] =
                    config_forces.species_interactions[key]

\* C18 (what the code does): after App::apply_preset or
\* App::apply_current_config the engine holds no global force and the
\* default Interaction Matrix, whatever config.forces enumerates
C18_EngineRebuiltWithoutForces ==
    last.op \in ConfigOps =>
        /\ global_forces = <<>>
        /\ interaction_matrix = InteractionMatrix_default

\* a preset has been applied and the configuration enumerates global forces
\* and per-pair lists
C18_Witness ==
    /\ last.op = "apply_preset"
    /\ config_forces.global_forces # <<>>
    /\ DOMAIN config_forces.species_interactions # {}

\* ---------------------------------------------------------------------- C19
\* the displacement from body i to body j of the evaluated store
Disp(i, j) == VSub(last.before[j].position, last.before[i].position)
\* the direction of d is representable: its length and its unit vector are
\* exact at the resolution of the fixed point
Representable(d) ==
    /\ d # ZERO
    /\ length(d) * length(d) = RawLenSq(d)
    /\ (d.x * SCALE) % length(d) = 0
    /\ (d.y * SCALE) % length(d) = 0
Cross(a, b) == a.x * b.y - a.y * b.x
RawDot(a, b) == a.x * b.x + a.y * b.y
\* f is parallel to d up to one unit of resolution in each component
Parallel(f, d) == Abs(Cross(f, d)) <= Abs(d.x) + Abs(d.y)
\* strength * m1 * m2 / max(distance, min_distance)^2
GravityMagnitude(ft, i, j) ==
    LET distance == Max2(length(Disp(i, j)), ft.min_distance)
    IN  TDiv(Mul(Mul(ft.strength, last.before[i].mass), last.before[j].mass)
               * SCALE * SCALE, distance * distance)
Pairs == { ij \in (1..Len(last.before)) \X (1..Len(last.before)) :
             ij[1] # ij[2] }

\* C19: under Gravity the force on a body from another one at a distinct
\* position points along the displacement toward it, with magnitude
\* strength*m1*m2 / max(distance, min_distance)^2; beyond min_distance a
\* farther body of the same mass pulls strictly less; masses 1 at (0,0) and
\* (1,0) with strength 1 and min_distance 0.01 give (+1, 0) on the first
C19_GravityTowardInverseSquare ==
    (last.op = "calculate_force" /\ last.arg.type = "Gravity") =>
        \A ij \in Pairs :
            LET i == ij[1]
                j == ij[2]
                f == last.ret[i][j]
                d == Disp(i, j)
            IN  /\ Representable(d) =>
                      /\ RawDot(f, d) > 0
                      /\ Parallel(f, d)
                      /\ Abs(length(f) - GravityMagnitude(last.arg, i, j)) <= 2
                /\ \A k \in 1..Len(last.before) :
                      ( /\ k # i
                        /\ Representable(d)
                        /\ Representable(Disp(i, k))
                        /\ last.before[k].mass = last.before[j].mass
                        /\ RawLenSq(d) >= last.arg.min_distance
                                             * last.arg.min_distance
                        /\ RawLenSq(Disp(i, k)) > RawLenSq(d) ) =>
                          /\ GravityMagnitude(last.arg, i, k)
                                < GravityMagnitude(last.arg, i, j)
                          /\ RawLenSq(last.ret[i][k]) < RawLenSq(f)
                /\ ( /\ last.arg = Gravity(100, 1)
                     /\ last.before[i].position = Vec2(0, 0)
                     /\ last.before[j].position = Vec2(100, 0)
                     /\ last.before[i].mass = 100
                     /\ last.before[j].mass = 100 ) =>
                          f = Vec2(100, 0)

\* Gravity with min_distance 3.5 evaluated on a store where the first body
\* has a body beyond min_distance and a body of the same mass farther away
C19_Witness ==
    /\ last.op = "calculate_force"
    /\ last.arg = Gravity(10000, 350)
    /\ Len(last.before) >= 3
    /\ Representable(Disp(1, 2))
    /\ Representable(Disp(1, 3))
    /\ length(Disp(1, 2)) > 350
    /\ length(Disp(1, 3)) > length(Disp(1, 2))
    /\ last.before[2].mass = last.before[3].mass
    /\ last.ret[1][2] # ZERO
    /\ last.ret[1][3] # ZERO

\* ---------------------------------------------------------------------- C20
RECURSIVE SumForces(_, _, _)
\* the sum of the forces on body i from the bodies 1..n that are in S
SumForces(i, S, n) ==
    IF n = 0 THEN ZERO
    ELSE IF n \in S /\ n # i
         THEN VAdd(SumForces(i, S, n - 1), last.ret[i][n])
         ELSE SumForces(i, S, n - 1)
Within(i, max_distance) ==
    { k \in 1..Len(last.before) :
        RawLenSq(Disp(i, k)) <= max_distance * max_distance }

\* C20: the Attraction and the Repulsion force are the zero vector at a
\* distance >= max_distance and at distance 0; in between the magnitude is
\* strength * (1 - distance/max_distance), toward the other body for
\* Attraction and away from it for Repulsion; the forces on a body from the
\* bodies within max_distance add up to the same as the forces from all
C20_LinearFalloffWithCutoff ==
    (last.op = "calculate_force"
        /\ last.arg.type \in {"Attraction", "Repulsion"}) =>
        /\ \A ij \in Pairs :
              LET i == ij[1]
                  j == ij[2]
                  f == last.ret[i][j]
                  d == Disp(i, j)
                  max == last.arg.max_distance
                  magnitude ==
                      Mul(last.arg.strength, SCALE - Div(length(d), max))
              IN  /\ (RawLenSq(d) >= max * max \/ d = ZERO) => f = ZERO
                  /\ (Representable(d) /\ RawLenSq(d) < max * max) =>
                        /\ Abs(length(f) - magnitude) <= 2
                        /\ Parallel(f, d)
                        /\ IF last.arg.type = "Attraction"
                           THEN RawDot(f, d) > 0 ELSE RawDot(f, d) < 0
        /\ \A i \in 1..Len(last.before) :
              SumForces(i, Within(i, last.arg.max_distance), Len(last.before))
                = SumForces(i, 1..Len(last.before), Len(last.before))

\* Attraction evaluated on a store with a body within max_distance of the
\* first one and a body beyond it
C20_Witness ==
    /\ last.op = "calculate_force"
    /\ last.arg.type = "Attraction"
    /\ Len(last.before) >= 3
    /\ Representable(Disp(1, 2))
    /\ RawLenSq(Disp(1, 2)) < last.arg.max_distance * last.arg.max_distance
    /\ RawLenSq(Disp(1, 3)) > last.arg.max_distance * last.arg.max_distance
    /\ last.ret[1][2] # ZERO

\* ---------------------------------------------------------------------- C21
\* C21: the Damping force is -coefficient * velocity of the particle acted
\* upon: opposite to the velocity for a positive coefficient, the zero
\* vector for a particle at rest, and the same whatever the other particle
\* is and whether there is one
C21_DampingOpposesOwnVelocity ==
    ((last.op \in {"calculate_force", "calculate_global_force"})
        /\ last.arg.type = "Damping") =>
        \A i \in 1..Len(last.before) :
            LET v == last.before[i].velocity
                expected == Vec2(Mul(-v.x, last.arg.coefficient),
                                 Mul(-v.y, last.arg.coefficient))
                forces == IF last.op = "calculate_force"
                          THEN { last.ret[i][j] :
                                   j \in (1..Len(last.before)) \ {i} }
                          ELSE { last.ret[i] }
            IN  \A f \in forces :
                    /\ f = expected
                    /\ v = ZERO => f = ZERO
                    /\ v # ZERO => (RawDot(f, v) < 0 /\ Cross(f, v) = 0)

\* Damping evaluated for a moving particle against another particle that
\* moves differently
C21_Witness ==
    /\ last.op = "calculate_force"
    /\ last.arg.type = "Damping"
    /\ last.before[1].velocity # ZERO
    /\ last.before[2].velocity # last.before[1].velocity
    /\ last.ret[1][2] # ZERO

\* ---------------------------------------------------------------------- C22
PairKinds ==
    {"Gravity", "ElectroMagnetic", "LennardJones", "Attraction", "Repulsion",
     "Spring"}
Coincide(i, j) == last.before[i].position = last.before[j].position
\* the evaluated store without the neighbours that coincide with body i, and
\* the index of body i in it
NotOn(i) ==
    LET keep(q) == \/ q.id = last.before[i].id
                   \/ q.position # last.before[i].position
    IN  SelectSeq(last.before, keep)
IndexIn(i) ==
    Cardinality({ k \in 1..i : k = i \/ ~Coincide(i, k) })
\* a Vortex gives nothing at its center, with or without another particle;
\* Flocking gives what it gives without the coincident neighbours
VortexAndFlockingDegenerate ==
    /\ (last.op = "calculate_force" /\ last.arg.type = "Vortex") =>
          \A ij \in Pairs :
              last.before[ij[1]].position = last.arg.center =>
                  last.ret[ij[1]][ij[2]] = ZERO
    /\ (last.op = "calculate_global_force" /\ last.arg.type = "Vortex") =>
          \A i \in 1..Len(last.before) :
              last.before[i].position = last.arg.center => last.ret[i] = ZERO
    /\ last.op = "calculate_flocking_force" =>
          \A i \in 1..Len(last.before) :
              /\ last.ret[i] = calculate_flocking_force(
                                   last.before[i], IndexIn(i), NotOn(i),
                                   last.arg)
              /\ (\A j \in 1..Len(last.before) : Coincide(i, j)) =>
                    last.ret[i] = ZERO

\* the claim as the specification states it: for two particles at the same
\* position every law that takes another particle gives the zero vector, a
\* particle at the center of a Vortex gets no Vortex force, and Flocking
\* ignores neighbours at distance 0
C22_Original ==
    /\ (last.op = "calculate_force" /\ last.arg.type \in PairKinds) =>
          \A ij \in Pairs :
              Coincide(ij[1], ij[2]) => last.ret[ij[1]][ij[2]] = ZERO
    /\ VortexAndFlockingDegenerate

\* C22 (what the code does): the same, except that Gravity and
\* ElectroMagnetic give the zero vector for coincident particles only with a
\* min_distance above 0; with a min_distance of 0 they give NaN
C22_ZeroWhenFloored ==
    /\ (last.op = "calculate_force" /\ last.arg.type \in PairKinds) =>
          \A ij \in Pairs :
              Coincide(ij[1], ij[2]) =>
                  last.ret[ij[1]][ij[2]] =
                      IF /\ last.arg.type \in {"Gravity", "ElectroMagnetic"}
                         /\ last.arg.min_distance <= 0
                      THEN NaNVec ELSE ZERO
    /\ VortexAndFlockingDegenerate

\* Gravity without a distance floor evaluated for two particles at the same
\* position
C22_Witness ==
    /\ last.op = "calculate_force"
    /\ last.arg = Gravity(100, 0)
    /\ Coincide(1, 2)
    /\ last.ret[1][2] = NaNVec

\* ---------------------------------------------------------------------- C23
AccumOps == {"apply_force", "apply_impulse", "apply_forces"}
\* C23: apply_force, apply_impulse and a whole pass of apply_forces leave a
\* particle of mass 0 as it was, its accumulator still zero; on a particle
\* of mass above 0, apply_force(f) adds exactly f / mass to the accumulator
\* and changes nothing else
C23_MasslessImmune ==
    /\ \A i \in 1..Len(particles) :
          particles[i].mass = 0 => particles[i].acceleration = ZERO
    /\ last.op \in AccumOps =>
          /\ Len(particles) = Len(last.before)
          /\ \A i \in 1..Len(particles) :
                last.before[i].mass = 0 => particles[i] = last.before[i]
    /\ last.op = "apply_force" =>
          LET i == last.arg.index
              p == last.before[i]
          IN  p.mass > 0 =>
                particles[i] =
                    [p EXCEPT !.acceleration =
                        Vec2(p.acceleration.x + Div(last.arg.force.x, p.mass),
                             p.acceleration.y + Div(last.arg.force.y, p.mass))]

\* a pass that gave a body of mass above 0 an acceleration and left the body
\* without mass beside it alone, and a force then applied to the latter
C23_Witness ==
    /\ last.op = "apply_force"
    /\ phase = "accumulated"
    /\ Len(particles) >= 2
    /\ last.before[last.arg.index].mass = 0
    /\ last.before[last.arg.index].velocity # ZERO
    /\ \E j \in 1..Len(particles) :
          particles[j].mass > 0 /\ particles[j].acceleration # ZERO

\* ---------------------------------------------------------------------- C29
\* what the k-th global law and the two default pair laws give a particle
\* p, divided by its mass as apply_force does
GlobalShare(p, ft) ==
    Vec2(Div(Mul(-p.velocity.x, ft.coefficient), p.mass),
         Div(Mul(-p.velocity.y, ft.coefficient), p.mass))
DampingShare(p) == GlobalShare(p, InteractionMatrix_default.default_forces[1])
BrownianShare(p, r) ==
    LET intensity == InteractionMatrix_default.default_forces[2].intensity
    IN  Vec2(Div(Mul(r[1] - 50, intensity), p.mass),
             Div(Mul(r[2] - 50, intensity), p.mass))
\* C29: a pass over n particles under the default matrix applies its
\* Damping and its Brownian to a particle once per other particle, n - 1
\* times, and not at all for n = 1; every law of global_forces is applied
\* to it once whatever n is
C29_PairListPerOtherParticle ==
    last.op = "apply_forces" =>
        \E r \in AccumDraws :
            \A i \in 1..Len(particles) :
                LET p == last.before[i]
                    n == Len(last.before)
                    g == IF global_forces = <<>> THEN ZERO
                         ELSE GlobalShare(p, global_forces[1])
                    d == DampingShare(p)
                    b == BrownianShare(p, r)
                IN  p.mass > 0 =>
                      /\ particles[i].acceleration =
                            Vec2(p.acceleration.x + g.x + (n - 1) * (d.x + b.x),
                                 p.acceleration.y + g.y + (n - 1) * (d.y + b.y))
                      /\ (n = 1 /\ global_forces = <<>>) =>
                            particles[i].acceleration = p.acceleration

\* a pass over three bodies with a global Damping, in which the Brownian
\* draws gave nothing: the body of mass 1 has twice the default Damping and
\* once the global one
C29_Witness ==
    /\ last.op = "apply_forces"
    /\ Len(particles) = 3
    /\ global_forces = <<Damping(50)>>
    /\ \E i \in 1..3 :
          /\ last.before[i].mass = SCALE
          /\ last.before[i].acceleration = ZERO
          /\ particles[i].acceleration = Vec2(-200 - 2 * 4, 100 + 2 * 2)

\* ---------------------------------------------------------------------- C24
Insertions == {"add_particle", "spawn_particle_at"}
\* C24: clear() leaves a store of no particles whatever it held, and leaves
\* the capacity and the bounds as they were; an insertion into a store below
\* its capacity, a cleared one included, adds exactly the inserted particle,
\* and an insertion into a full store adds nothing
C24_ClearEmptiesKeepsCapacity ==
    [][/\ last'.op = "clear" =>
             /\ Len(particles') = 0
             /\ max_particles' = max_particles
             /\ bounds' = bounds
       /\ last'.op \in Insertions =>
             particles' = IF Len(particles) < max_particles
                          THEN Append(particles, last'.arg)
                          ELSE particles]_vars

\* a store with bounds, filled to its capacity, has been cleared
C24_Witness ==
    /\ last.op = "clear"
    /\ Len(last.before) = max_particles
    /\ bounds.some
    /\ particles = <<>>

\* ---------------------------------------------------------------------- C25
\* C25: pruning a pruned store removes nothing: retain is idempotent on
\* every store, and an update with a frame time of 0, in which no particle
\* ages, that follows another update leaves every particle in the store
C25_PruneIdempotent ==
    /\ retain_alive(retain_alive(particles)) = retain_alive(particles)
    /\ retain_alive(retain_alive(last.before)) = retain_alive(last.before)
    /\ (last.op = "ParticleSystem_update" /\ last.arg = 0 /\ steps >= 2) =>
          Ids(particles) = Ids(last.before)

\* a second update, of frame time 0, on a store from which the first update
\* had removed a dead particle and kept another
C25_Witness ==
    /\ last.op = "ParticleSystem_update" /\ last.arg = 0
    /\ steps = 2
    /\ Len(particles) >= 1
    /\ Len(particles) < next_id - 1
    /\ Ids(particles) = Ids(last.before)

\* ---------------------------------------------------------------------- C26
\* C26: the pruning at the end of an update removes exactly the particles
\* whose age has reached their lifespan and keeps the others in the order
\* they had
C26_PruneExactInOrder ==
    last.op = "ParticleSystem_update" =>
        LET alive(q) == q.age + last.arg < q.lifespan
        IN  /\ Ids(particles) = Ids(SelectSeq(last.before, alive))
            /\ \A i \in 1..Len(particles) :
                  particles[i].age < particles[i].lifespan

\* a dead particle between two live ones has been removed
C26_Witness ==
    /\ last.op = "ParticleSystem_update"
    /\ Len(last.before) = 3
    /\ last.before[2].age + last.arg >= last.before[2].lifespan
    /\ Ids(particles) = <<last.before[1].id, last.before[3].id>>

\* ---------------------------------------------------------------------- C30
\* equal up to two units of the resolution in each component
Near(u, v) == Abs(u.x - v.x) <= 2 /\ Abs(u.y - v.y) <= 2
\* C30: a Verlet step that resets the previous-position cache moves every
\* particle to position + acceleration * dt^2 and sets its velocity to
\* acceleration * dt clamped to max_velocity, whatever the velocity was
\* (acceleration is the accumulator after the force pass of the step); with
\* an acceleration of zero the particle stays where it is and its velocity
\* becomes zero
C30_ResetStepFromAccelerationOnly ==
    (last.op = "PhysicsEngine_update" /\ verlet_used.ran /\ verlet_used.reset)
    => \E r \in AccumDraws :
        LET rnd == [site \in BrownianSites(last.before, interaction_matrix,
                                           global_forces) |-> r]
            acc == apply_forces(last.before, interaction_matrix,
                                global_forces, rnd)
            dt == config.dt
        IN  \A i \in 1..Len(particles) :
                LET a == acc[i].acceleration
                    x == last.before[i].position
                IN  /\ Near(particles[i].position,
                            Vec2(x.x + Mul(a.x, Mul(dt, dt)),
                                 x.y + Mul(a.y, Mul(dt, dt))))
                    /\ Near(particles[i].velocity,
                            clamp_length_max(Vec2(Mul(a.x, dt), Mul(a.y, dt)),
                                             config.max_velocity))
                    /\ RawLenSq(particles[i].velocity)
                          <= config.max_velocity * config.max_velocity
                    /\ a = ZERO => /\ particles[i].position = x
                                   /\ particles[i].velocity = ZERO

\* the first step of a single moving body that no force acts on: it has
\* stayed where it was and lost its velocity
C30_Witness ==
    /\ last.op = "PhysicsEngine_update" /\ verlet_used.ran /\ verlet_used.reset
    /\ Len(particles) = 1
    /\ last.before[1].velocity # ZERO
    /\ last.before[1].acceleration = ZERO
    /\ particles[1].position = last.before[1].position
    /\ particles[1].velocity = ZERO

\* ---------------------------------------------------------------------- C27
\* no force acts in a step from this state: a single particle has no pair,
\* there is no global law and nothing is accumulated
NoForceActs ==
    /\ Len(particles) = 1
    /\ global_forces = <<>>
    /\ particles[1].acceleration = ZERO
\* one step forward from this state, the velocities reversed, one step more
StepForward ==
    PhysicsEngine_update(particles, previous_positions, config,
                         interaction_matrix, global_forces, <<>>)
StepBack ==
    PhysicsEngine_update(
        [i \in 1..Len(particles) |->
            [StepForward.particles[i] EXCEPT !.velocity = VNeg(@)]],
        StepForward.previous_positions, config, interaction_matrix,
        global_forces, <<>>)
\* the claim as the specification states it: with no force acting, a Verlet
\* step of dt, a reversal of the velocity and one more Verlet step bring
\* the particle back to the position it had, within a small tolerance
C27_Original ==
    (phase = "idle" /\ config.integration_method = "Verlet" /\ NoForceActs) =>
        Near(StepBack.particles[1].position, particles[1].position)

\* C27 (what the code does): the Verlet step never reads the velocity; the
\* step after the reversal goes on from the two last positions, so after
\* the two steps the particle is twice its last displacement further, and
\* back only if it was not moving
C27_ReversalIgnored ==
    (phase = "idle" /\ config.integration_method = "Verlet" /\ NoForceActs) =>
        LET x == particles[1].position
            prev == verlet_cache(particles, previous_positions)[1]
        IN  StepBack.particles[1].position =
                Vec2(x.x + 2 * (x.x - prev.x), x.y + 2 * (x.y - prev.y))

\* a body set in motion by a force at its first step has made a step, was
\* reversed, and has made one more step with no force: it is further away
C27_Witness ==
    /\ last.op = "PhysicsEngine_update" /\ verlet_used.ran
    /\ ~verlet_used.reset
    /\ steps = 3
    /\ Len(particles) = 1
    /\ last.before[1].acceleration = ZERO
    /\ last.before[1].velocity =
          VNeg(clamp_length_max(
                   VDivS(VSub(last.before[1].position,
                              verlet_used.start[1].position), config.dt),
                   config.max_velocity))
    /\ last.before[1].velocity # ZERO
    /\ ~Near(particles[1].position, verlet_used.start[1].position)

\* ---------------------------------------------------------------------- C28
\* C28: after any inserts that follow a clear, no node of the quadtree is
\* deeper than max_depth (get_max_depth() <= max_depth), a node that has
\* been subdivided holds max_particles indices, and every node above
\* max_depth holds at most max_particles indices
C28_DepthAndCapacityBounded ==
    LET tree == spatial_quadtree.quadtree
        root == tree[<<>>]
    IN  /\ QuadTree_get_max_depth(tree, <<>>) <= root.max_depth
        /\ \A path \in DOMAIN tree :
              LET node == tree[path]
              IN  /\ node.depth = Len(path)
                  /\ node.depth <= root.max_depth
                  /\ node.children =>
                        /\ Len(node.particles) >= node.max_particles
                        /\ node.depth < node.max_depth
                  /\ node.depth < node.max_depth =>
                        Len(node.particles) <= node.max_particles

\* a tree of capacity 1 and max_depth 2 subdivided twice, whose node at
\* depth 2 has taken a second index because it cannot subdivide
C28_Witness ==
    LET tree == spatial_quadtree.quadtree
    IN  /\ last.op = "QuadTree_insert"
        /\ tree[<<>>].max_particles = 1 /\ tree[<<>>].max_depth = 2
        /\ QuadTree_get_max_depth(tree, <<>>) = 2
        /\ \E path \in DOMAIN tree :
              Len(path) = 2 /\ Len(tree[path].particles) = 2

====
